---- MODULE Spec2Model ----
(***************************************************************************)
(* Model of the admin front end's chat clients (GroqChat, Chat) and of the *)
(* retrieval test harness (TestRetrieval).                                 *)
(*                                                                         *)
(* Each component is a React function component: its useState cells are   *)
(* the variables, each event handler is one action up to its first await,  *)
(* and the continuation after an awaited fetch is one action per response. *)
(* A continuation reads component state only through functional updates    *)
(* (setX(prev => ...)), so the awaits of fetch and of response.json() are   *)
(* one step.  One component is mounted per behaviour (variable panel).     *)
(***************************************************************************)
EXTENDS Integers, Sequences, FiniteSets

VARIABLES
    panel,          \* the component this behaviour runs
    \* ---- GroqChat (src/unnamed/part_000, 574-866)
    gMessages,      \* useState<Message[]>  messages
    gInput,         \* useState('')         input
    gIsLoading,     \* useState(false)      isLoading
    gNet,           \* POST /chat requests of GroqChat awaiting their response
    \* ---- Chat (src/unnamed/part_001, 147-625)
    cMessages,      \* useState<Message[]>  messages
    cMessage,       \* useState('')         message (the text field)
    cIsLoading,     \* useState(false)      isLoading
    cError,         \* useState<string|null> error
    cSources,       \* useState             sources
    cStored,        \* localStorage item 'chatHistory'
    cReads,         \* localStorage.getItem('chatHistory') calls made so far
    cIsClearDialogOpen, \* useState(false)  isClearDialogOpen
    cNet,           \* POST /chat requests of Chat awaiting their response
    \* ---- TestRetrieval (src/unnamed/part_000, 63-221)
    scenarios,      \* useState<TestScenario[]>
    results,        \* useState<Map<string, TestResult>>
    newQuery,       \* useState('')
    isRunningAll,   \* useState(false)
    progress,       \* useState(0)
    runs,           \* suspended handleRunAll invocations (closure + loop state)
    clock,          \* Date.now(), read by handleAddScenario for the new id
    edits,          \* how many scenarios have been added or removed so far
    singleQuery,    \* useState('')
    singleResult,   \* useState<TestResult | null>(null)
    isRunningSingle, \* useState(false)
    singles,        \* handleRunSingle invocations awaiting runSingleTest
    \* ---- Confessions (src/src/components/Confessions.tsx, 61-73)
    confessions,    \* useState<Confession[]>([]), as the set of its rows
    stats,          \* useState<Stats>({ total: 0, replied: 0, notReplied: 0 })
    loading,        \* useState(true)
    actionLoading,  \* useState(false)
    selectedConfession, \* useState<Confession | null>(null)
    replyText,      \* useState('')
    editedMessage,  \* useState('')
    isReplyDialogOpen,  \* useState(false)
    isViewDialogOpen,   \* useState(false)
    isEditDialogOpen,   \* useState(false)
    isDeleteDialogOpen, \* useState(false)
    isDeleteReplyDialogOpen, \* useState(false)
    filter,         \* useState<string>('all')
    server,         \* the confessions the backend holds
    gets,           \* GET requests of fetchConfessions / fetchStats in flight
    acts,           \* mutating requests in flight
    issued,         \* mutating requests sent so far
    effectRuns,     \* runs of the effect on [filter] so far
    settled,        \* answered refetches of mutating requests
    \* ---- RagConfig (src/src/components/RagConfig.tsx)
    rConfig,        \* config: the last /config snapshot applied, if any
    rHealth,        \* health: the last /health/detailed snapshot applied, if any
    rLoading,       \* loading
    rRefreshing,    \* refreshing
    rCalls,         \* invocations of loadAll / handleRefresh with a fetch in flight
    rIssued,        \* invocations of loadAll / handleRefresh so far
    \* ---- observation
    ev              \* the last handler step: what ran and what it saw

chatVars == <<gMessages, gInput, gIsLoading, gNet>>
cVars    == <<cMessages, cMessage, cIsLoading, cError, cSources, cStored, cNet,
             cReads, cIsClearDialogOpen>>
trVars   == <<scenarios, results, newQuery, isRunningAll, progress, runs, clock, edits>>
quickVars == <<singleQuery, singleResult, isRunningSingle, singles>>
dialogVars == <<isReplyDialogOpen, isViewDialogOpen, isEditDialogOpen,
                isDeleteDialogOpen, isDeleteReplyDialogOpen>>
formVars == <<selectedConfession, replyText, editedMessage>>
confVars == <<confessions, stats, loading, actionLoading, formVars, dialogVars,
              filter, server, gets, acts, issued, effectRuns, settled>>
ragVars  == <<rConfig, rHealth, rLoading, rRefreshing, rCalls, rIssued>>
notConfVars == <<panel, chatVars, cVars, trVars, quickVars, ragVars>>
vars     == <<panel, chatVars, cVars, trVars, quickVars, confVars, ragVars, ev>>

----
\* Bounds of the model.
MaxMsgs == 4        \* longest transcript a submit is still accepted into
MaxInFlight == 2    \* most chat requests awaiting a response at once
MaxRuns == 2        \* most handleRunAll invocations suspended at once
MaxEdits == 1       \* scenarios added or removed per behaviour
MaxSingles == 2     \* most handleRunSingle invocations suspended at once
MaxActions == 1     \* mutating requests of the Confessions panel per behaviour
MaxFilters == 1     \* changes of the Confessions filter per behaviour
MaxRefreshes == 2   \* presses of the RagConfig Refresh button per behaviour

----
\* Optional JavaScript values: an absent property (undefined) is None.
None == {}
Some(v) == {v}
The(o) == CHOOSE v \in o : TRUE

\* Text typed into a field: a string as its sequence of characters.
Texts == { <<>>, <<" ">>, <<"a">>, <<" ", "a", " ">>, <<"b", " ">> }

\* Text typed into the new-scenario field.
QueryTexts == { <<>>, <<" ">>, <<"a", " ">> }

IsSpace(ch) == ch = " "

RECURSIVE TrimStart(_)
TrimStart(s) ==
    IF s # <<>> /\ IsSpace(Head(s)) THEN TrimStart(Tail(s)) ELSE s

RECURSIVE TrimEnd(_)
TrimEnd(s) ==
    IF s # <<>> /\ IsSpace(s[Len(s)]) THEN TrimEnd(SubSeq(s, 1, Len(s) - 1)) ELSE s

\* String.prototype.trim
Trim(s) == TrimEnd(TrimStart(s))

\* What a handler step leaves in ev: the handler, how it ended, what it saw
\* (the transcript it ran on; for a response, the request it answers) and what
\* it was given (the text submitted, the response received).
Event(op, outcome, saw, arg) ==
    [op |-> op, outcome |-> outcome, saw |-> saw, arg |-> arg]

----
\* The backend's answers to POST /chat.
\* A JSON body: every property optional.
Body(error, response, sources, duration, apiDuration) ==
    [json |-> TRUE, error |-> error, response |-> response, sources |-> sources,
     duration_seconds |-> duration, api_duration_seconds |-> apiDuration]

NotJson == [json |-> FALSE, error |-> None, response |-> None, sources |-> None,
            duration_seconds |-> None, api_duration_seconds |-> None]

ReplyBodies ==
    { Body(None, Some("r1"), Some(<<"s1">>), Some(3), Some(2)),
      Body(None, Some("r2"), None, Some(5), Some(4)) }

ErrorBody == Body(Some("E"), None, None, None, None)

\* net: fetch resolved (FALSE: it rejected); ok: response.ok; body: the payload.
ChatResponses ==
    { [net |-> FALSE, ok |-> FALSE, body |-> NotJson] }
    \cup [net : {TRUE}, ok : BOOLEAN, body : ReplyBodies \cup {ErrorBody, NotJson}]

----
\* GroqChat

GroqMessage(role, content, sources, duration, apiDuration) ==
    [role |-> role, content |-> content, sources |-> sources,
     duration |-> duration, apiDuration |-> apiDuration]

GroqUserMessage(text) == GroqMessage("user", Some(text), None, None, None)

\* messages.map(msg => ({[msg.role === 'user' ? 'user' : 'assistant']: msg.content}))
GroqHistory_KeysSwapped(messages) ==
    [i \in 1..Len(messages) |->
        [key |-> IF messages[i].role = "user" THEN "assistant" ELSE "user",
         text |-> messages[i].content]]
GroqHistory_LastTwo(messages) ==
    [i \in 1..(IF Len(messages) < 2 THEN Len(messages) ELSE 2) |->
        LET j == i + (IF Len(messages) < 2 THEN 0 ELSE Len(messages) - 2)
        IN  [key |-> IF messages[j].role = "user" THEN "user" ELSE "assistant",
             text |-> messages[j].content]]
GroqHistory(messages) ==
    [i \in 1..Len(messages) |->
        [key |-> IF messages[i].role = "user" THEN "user" ELSE "assistant",
         text |-> messages[i].content]]

\* if (!input.trim() || isLoading) return;
GroqRejects_NoTrim(input, isLoading) == input = <<>> \/ isLoading
GroqRejects_NoLoading(input, isLoading) == Trim(input) = <<>>
GroqRejects(input, isLoading) == Trim(input) = <<>> \/ isLoading

\* The paths of the try block that end in the catch block: fetch rejects, the
\* status is not ok (the throw, or response.json() throwing before it), or the
\* body of an ok response is not JSON.
GroqFails(r) == ~r.net \/ ~r.ok \/ ~r.body.json

GroqAssistantMessage_Swapped(data) ==
    GroqMessage("assistant", data.response, data.sources,
                data.api_duration_seconds, data.duration_seconds)
GroqAssistantMessage(data) ==
    GroqMessage("assistant", data.response, data.sources,
                data.duration_seconds, data.api_duration_seconds)

\* prev.slice(0, -1)
SliceLast(s) == IF s = <<>> THEN <<>> ELSE SubSeq(s, 1, Len(s) - 1)

\* The catch block: setMessages(prev => prev.slice(0, -1))
GroqAfterFailure_Keep(messages) == messages
GroqAfterFailure_DropTwo(messages) == SliceLast(SliceLast(messages))
GroqAfterFailure(messages) == SliceLast(messages)

RemoveAt(s, i) == SubSeq(s, 1, i - 1) \o SubSeq(s, i + 1, Len(s))

\* onChange={(e) => setInput(e.target.value)}.  The field is disabled while
\* isLoading; sendMessage has its own guard and does not rely on that, so the
\* text may change at any time here.
GroqSetInput(t) ==
    /\ panel = "GroqChat"
    /\ gInput' = t
    /\ ev' = Event("setInput", "set", gMessages, t)
    /\ UNCHANGED <<panel, gMessages, gIsLoading, gNet, cVars, trVars, quickVars, confVars, ragVars>>

\* sendMessage up to the fetch call.
GroqSendMessage ==
    /\ panel = "GroqChat"
    /\ IF GroqRejects(gInput, gIsLoading)
       THEN /\ ev' = Event("sendMessage", "rejected", gMessages, gInput)
            /\ UNCHANGED chatVars
       ELSE /\ Len(gMessages) < MaxMsgs
            /\ Len(gNet) < MaxInFlight
            /\ gMessages' = Append(gMessages, GroqUserMessage(Trim(gInput)))
            /\ gInput' = <<>>
            /\ gIsLoading' = TRUE
            /\ gNet' = Append(gNet, [message |-> Trim(gInput),
                                     history |-> GroqHistory(gMessages),
                                     before |-> gMessages])
            /\ ev' = Event("sendMessage", "sent", gMessages, gInput)
    /\ UNCHANGED <<panel, cVars, trVars, quickVars, confVars, ragVars>>

\* sendMessage from the fetch's settlement to the end of the finally block.
GroqRespond ==
    /\ panel = "GroqChat"
    /\ \E i \in 1..Len(gNet), r \in ChatResponses :
        /\ gNet' = RemoveAt(gNet, i)
        /\ gMessages' = IF GroqFails(r)
                        THEN GroqAfterFailure(gMessages)
                        ELSE Append(gMessages, GroqAssistantMessage(r.body))
        /\ gIsLoading' = FALSE
        /\ ev' = Event("response", IF GroqFails(r) THEN "caught" ELSE "appended",
                       gNet[i], r)
    /\ UNCHANGED <<panel, gInput, cVars, trVars, quickVars, confVars, ragVars>>

\* The Clear button (disabled while the transcript is empty) and clearChat.
GroqClearChat ==
    /\ panel = "GroqChat"
    /\ Len(gMessages) # 0
    /\ gMessages' = <<>>
    /\ ev' = Event("clearChat", "cleared", gMessages, None)
    /\ UNCHANGED <<panel, gInput, gIsLoading, gNet, cVars, trVars, quickVars, confVars, ragVars>>

----
\* Chat

\* A Date object, the text toISOString() gives for it (which is what
\* JSON.stringify writes for a Date), and new Date(value).  Every message of
\* the model is stamped with the same instant.
DateAt(t) == [date |-> t]
ToISOString(d) == [iso |-> d.date]
NewDate(v) == IF "iso" \in DOMAIN v THEN [date |-> v.iso] ELSE v

ChatMessage(type, content, sources) ==
    [type |-> type, content |-> content, sources |-> sources,
     timestamp |-> DateAt(0)]

ChatUserMessage(text) == ChatMessage("user", Some(text), None)

\* data.sources || []
OrEmpty(o) == IF o = None THEN <<>> ELSE The(o)

ChatAssistantMessage(data) ==
    ChatMessage("assistant", data.response, Some(OrEmpty(data.sources)))

\* JSON.stringify(messages) and JSON.parse: the item holds text, which parses
\* back to what was written unless it is not JSON; a Date is written as its
\* ISO text and parses back as that text.
Stringify(messages) ==
    [valid |-> TRUE,
     text |-> [i \in 1..Len(messages) |->
                 [messages[i] EXCEPT !.timestamp = ToISOString(@)]]]
Corrupt == [valid |-> FALSE, text |-> <<>>]

\* parsedMessages.map(msg => ({ ...msg, timestamp: new Date(msg.timestamp) }))
Revive(parsed) ==
    [i \in 1..Len(parsed) |-> [parsed[i] EXCEPT !.timestamp = NewDate(@)]]

\* The mount effect: getItem, JSON.parse, setMessages; a parse error is logged.
ChatLoad(item) ==
    IF item = None THEN <<>>
    ELSE IF The(item).valid THEN Revive(The(item).text) ELSE <<>>

\* The save effect, run after every change of messages.
ChatSave_Late(messages, item) ==
    IF Len(messages) > 1 THEN Some(Stringify(messages)) ELSE item
ChatSave_Always(messages, item) == Some(Stringify(messages))
ChatSave(messages, item) ==
    IF Len(messages) > 0 THEN Some(Stringify(messages)) ELSE item

\* for (let i = 0; i < messages.length; i += 2) { if (messages[i] && messages[i + 1]
\*   && messages[i].type === 'user' && messages[i + 1].type === 'assistant') push }
RECURSIVE ChatHistoryFrom(_, _)
ChatHistoryFrom(messages, i) ==
    IF i > Len(messages) THEN <<>>
    ELSE (IF i + 1 <= Len(messages)
             /\ messages[i].type = "user" /\ messages[i + 1].type = "assistant"
          THEN << [user |-> messages[i].content, assistant |-> messages[i + 1].content] >>
          ELSE <<>>)
         \o ChatHistoryFrom(messages, i + 2)

ChatHistory(messages) == ChatHistoryFrom(messages, 1)

\* if (!message.trim() || isLoading) return;
ChatRejects(message, isLoading) == Trim(message) = <<>> \/ isLoading

\* The paths of the try block that end in the catch block: fetch rejects,
\* response.json() throws, the body has a truthy error, the status is not ok.
ChatFails(r) == ~r.net \/ ~r.body.json \/ r.body.error # None \/ ~r.ok

\* The catch block: setError(errorMessage), and no setMessages.
ChatAfterFailure_Rollback(messages) == SliceLast(messages)
ChatAfterFailure(messages) == messages

\* onChange={(e) => setMessage(e.target.value)}.  As in GroqChat, the text
\* may change at any time: handleSubmit's guard is what stops a second request.
ChatSetMessage(t) ==
    /\ panel = "Chat"
    /\ cReads > 0
    /\ cMessage' = t
    /\ ev' = Event("setMessage", "set", cMessages, t)
    /\ UNCHANGED <<panel, cMessages, cIsLoading, cError, cSources, cStored, cNet,
                   cReads, cIsClearDialogOpen, chatVars, trVars, quickVars, confVars, ragVars>>

\* The two mount effects: the load effect reads the item once and sets the
\* transcript; the save effect then runs for the transcript that was loaded.
ChatMount ==
    /\ panel = "Chat"
    /\ cReads = 0
    /\ cReads' = cReads + 1
    /\ cMessages' = ChatLoad(cStored)
    /\ cStored' = ChatSave(cMessages', cStored)
    /\ ev' = Event("mount", "loaded", cMessages, cStored)
    /\ UNCHANGED <<panel, cMessage, cIsLoading, cError, cSources, cNet,
                   cIsClearDialogOpen, chatVars, trVars, quickVars, confVars, ragVars>>

\* handleSubmit up to the fetch call, and the save effect of the new transcript.
ChatHandleSubmit ==
    /\ panel = "Chat"
    /\ cReads > 0
    /\ IF ChatRejects(cMessage, cIsLoading)
       THEN /\ ev' = Event("handleSubmit", "rejected", cMessages, cMessage)
            /\ UNCHANGED cVars
       ELSE /\ Len(cMessages) < MaxMsgs
            /\ Len(cNet) < MaxInFlight
            /\ cMessages' = Append(cMessages, ChatUserMessage(Trim(cMessage)))
            /\ cMessage' = <<>>
            /\ cIsLoading' = TRUE
            /\ cError' = None
            /\ cNet' = Append(cNet, [message |-> Trim(cMessage),
                                     history |-> ChatHistory(cMessages),
                                     before |-> cMessages])
            /\ cStored' = ChatSave(cMessages', cStored)
            /\ ev' = Event("handleSubmit", "sent", cMessages, cMessage)
            /\ UNCHANGED <<cSources, cReads, cIsClearDialogOpen>>
    /\ UNCHANGED <<panel, chatVars, trVars, quickVars, confVars, ragVars>>

\* handleSubmit from the fetch's settlement to the end of the finally block.
ChatRespond ==
    /\ panel = "Chat"
    /\ cReads > 0
    /\ \E i \in 1..Len(cNet), r \in ChatResponses :
        /\ cNet' = RemoveAt(cNet, i)
        /\ IF ChatFails(r)
           THEN /\ cError' = Some("error")
                /\ cMessages' = ChatAfterFailure(cMessages)
                /\ cStored' = IF cMessages' = cMessages THEN cStored
                              ELSE ChatSave(cMessages', cStored)
                /\ UNCHANGED cSources
           ELSE /\ cMessages' = Append(cMessages, ChatAssistantMessage(r.body))
                /\ cSources' = OrEmpty(r.body.sources)
                /\ cStored' = ChatSave(cMessages', cStored)
                /\ UNCHANGED cError
        /\ cIsLoading' = FALSE
        /\ ev' = Event("response", IF ChatFails(r) THEN "caught" ELSE "appended",
                       cNet[i], r)
    /\ UNCHANGED <<panel, cMessage, cReads, cIsClearDialogOpen, chatVars, trVars, quickVars, confVars, ragVars>>

\* openClearDialog: the Clear History button is rendered while the
\* transcript is not empty.
ChatOpenClearDialog ==
    /\ panel = "Chat"
    /\ cReads > 0
    /\ Len(cMessages) > 0
    /\ ~cIsClearDialogOpen
    /\ cIsClearDialogOpen' = TRUE
    /\ ev' = Event("openClearDialog", "opened", cMessages, None)
    /\ UNCHANGED <<panel, cMessages, cMessage, cIsLoading, cError, cSources,
                   cStored, cNet, cReads, chatVars, trVars, quickVars, confVars, ragVars>>

\* closeClearDialog: the dialog's Cancel button and its onOpenChange.
ChatCloseClearDialog ==
    /\ panel = "Chat"
    /\ cIsClearDialogOpen
    /\ cIsClearDialogOpen' = FALSE
    /\ ev' = Event("closeClearDialog", "closed", cMessages, None)
    /\ UNCHANGED <<panel, cMessages, cMessage, cIsLoading, cError, cSources,
                   cStored, cNet, cReads, chatVars, trVars, quickVars, confVars, ragVars>>

\* confirmClearHistory (the dialog's confirm button), and the save effect,
\* which writes nothing for an empty transcript.
ChatConfirmClearHistory ==
    /\ panel = "Chat"
    /\ cIsClearDialogOpen
    /\ cMessages' = <<>>
    /\ cSources' = <<>>
    /\ cError' = None
    /\ cStored' = ChatSave(<<>>, None)
    /\ cIsClearDialogOpen' = FALSE
    /\ ev' = Event("confirmClearHistory", "cleared", cMessages, None)
    /\ UNCHANGED <<panel, cMessage, cIsLoading, cNet, cReads, chatVars, trVars, quickVars, confVars, ragVars>>

----
\* TestRetrieval

\* Numbers that are quotients (sum / length, (i + 1) / length * 100) are kept
\* exact, as numerator and denominator; durations are in milliseconds and
\* scores in hundredths.
Ratio(n, d) == [num |-> n, den |-> d]
Zero == Ratio(0, 1)

DEFAULT_SCENARIOS ==
    << [id |-> 1, query |-> <<"q1">>], [id |-> 2, query |-> <<"q2">>],
       [id |-> 3, query |-> <<"q3">>], [id |-> 4, query |-> <<"q4">>],
       [id |-> 5, query |-> <<"q5">>] >>

\* The first instant of the session: Date.now() is later than every default id.
FirstInstant == Len(DEFAULT_SCENARIOS) + 1

\* The backend's answers to GET /chat/test-retrieval, and the time the client
\* measures for a call that fails (fetch rejects, status not ok, body not JSON).
TestResponses ==
    { [ok |-> FALSE, results_count |-> 0, results |-> <<>>, duration_seconds |-> 0, elapsed |-> 7],
      [ok |-> TRUE, results_count |-> 2, results |-> <<90, 30>>, duration_seconds |-> 1, elapsed |-> 7],
      [ok |-> TRUE, results_count |-> 0, results |-> <<>>, duration_seconds |-> 2, elapsed |-> 7] }

TestResult(query, count, hits, duration, status) ==
    [query |-> query, results_count |-> count, results |-> hits,
     duration_seconds |-> duration, status |-> status]

\* runSingleTest, given the answer r to its fetch.
runSingleTest(query, r) ==
    IF r.ok
    THEN TestResult(query, r.results_count, r.results, r.duration_seconds, "success")
    ELSE TestResult(query, 0, <<>>, r.elapsed, "error")

\* Array.from(results.values()): a Map iterates in insertion order, and every
\* insertion is in the order of the scenario list, whose ids increase.
RECURSIVE ValuesOf(_, _)
ValuesOf(map, ids) ==
    IF ids = {} THEN <<>>
    ELSE LET least == CHOOSE x \in ids : \A y \in ids : x <= y
         IN  <<map[least]>> \o ValuesOf(map, ids \ {least})

ResultValues == ValuesOf(results, DOMAIN results)

IsCompleted(r) == r.status # "pending"
IsSuccessful(r) == r.status = "success" /\ r.results_count > 0
IsFailed_ErrorOnly(r) == r.status = "error"
IsFailed(r) == r.status = "error" \/ r.results_count = 0

completedTests == SelectSeq(ResultValues, IsCompleted)
successfulTests == SelectSeq(completedTests, IsSuccessful)
failedTests == SelectSeq(completedTests, IsFailed)

\* r.results[0]?.score || 0
TopScore(r) == IF Len(r.results) > 0 THEN r.results[1] ELSE 0

\* tests.reduce((sum, r) => sum + r.duration_seconds, 0)
RECURSIVE SumDuration(_)
SumDuration(tests) ==
    IF tests = <<>> THEN 0 ELSE Head(tests).duration_seconds + SumDuration(Tail(tests))

\* tests.reduce((sum, r) => sum + (r.results[0]?.score || 0), 0)
RECURSIVE SumTopScore(_)
SumTopScore(tests) ==
    IF tests = <<>> THEN 0 ELSE TopScore(Head(tests)) + SumTopScore(Tail(tests))

avgDuration_OverSuccessful ==
    IF Len(successfulTests) > 0
    THEN Ratio(SumDuration(successfulTests), Len(successfulTests))
    ELSE Zero
avgDuration ==
    IF Len(completedTests) > 0
    THEN Ratio(SumDuration(completedTests), Len(completedTests))
    ELSE Zero

avgScore_OverCompleted ==
    IF Len(completedTests) > 0
    THEN Ratio(SumTopScore(completedTests), Len(completedTests))
    ELSE Zero
avgScore ==
    IF Len(successfulTests) > 0
    THEN Ratio(SumTopScore(successfulTests), Len(successfulTests))
    ELSE Zero

NoResults == [id \in {} |-> 0]

\* newResults.set(id, result)
MapSet(map, id, result) ==
    [x \in DOMAIN map \cup {id} |-> IF x = id THEN result ELSE map[x]]

\* newResults.delete(id)
MapDelete(map, id) == [x \in DOMAIN map \ {id} |-> map[x]]

\* scenarios.filter(s => s.id !== id)
RECURSIVE WithoutId(_, _)
WithoutId(list, id) ==
    IF list = <<>> THEN <<>>
    ELSE (IF Head(list).id # id THEN <<Head(list)>> ELSE <<>>) \o WithoutId(Tail(list), id)

\* The Run All button: disabled={isRunningAll || scenarios.length === 0}
RunAllEnabled_Always == Len(scenarios) # 0
RunAllEnabled == ~isRunningAll /\ Len(scenarios) # 0

\* setProgress(((i + 1) / scenarios.length) * 100), i counted from 0
ProgressAfter_OffByOne(i, n) == Ratio((i + 2) * 100, n)
ProgressAfter(i, n) == Ratio((i + 1) * 100, n)

\* onChange={(e) => setNewQuery(e.target.value)}
SetNewQuery(t) ==
    /\ panel = "TestRetrieval"
    /\ newQuery' = t
    /\ ev' = Event("setNewQuery", "set", None, t)
    /\ UNCHANGED <<panel, scenarios, results, isRunningAll, progress, runs, clock,
                   edits, chatVars, cVars, quickVars, confVars, ragVars>>

\* handleRunAll up to its first await: the loop's first fetch is sent.
\* list is the scenarios of the render the handler closes over; i counts from 0.
HandleRunAll ==
    /\ panel = "TestRetrieval"
    /\ RunAllEnabled
    /\ Len(runs) < MaxRuns
    /\ isRunningAll' = TRUE
    /\ progress' = Zero
    /\ runs' = Append(runs, [list |-> scenarios, i |-> 0, newResults |-> NoResults])
    /\ ev' = Event("handleRunAll", "started", None, scenarios)
    /\ UNCHANGED <<panel, scenarios, results, newQuery, clock, edits, chatVars, cVars, quickVars, confVars, ragVars>>

\* One turn of handleRunAll's loop, from the answer to the fetch of scenario i:
\* the result is recorded, the progress set, and either the next fetch is sent
\* or the loop ends and isRunningAll is cleared.
RunAllStep ==
    /\ panel = "TestRetrieval"
    /\ \E k \in 1..Len(runs), r \in TestResponses :
        LET run == runs[k]
            n == Len(run.list)
            scenario == run.list[run.i + 1]
            newResults == MapSet(run.newResults, scenario.id,
                                 runSingleTest(scenario.query, r))
        IN  /\ results' = newResults
            /\ progress' = ProgressAfter(run.i, n)
            /\ IF run.i + 1 < n
               THEN /\ runs' = [runs EXCEPT ![k] = [list |-> run.list, i |-> run.i + 1,
                                                    newResults |-> newResults]]
                    /\ ev' = Event("handleRunAll", "recorded", None, run.list)
                    /\ UNCHANGED isRunningAll
               ELSE /\ runs' = RemoveAt(runs, k)
                    /\ isRunningAll' = FALSE
                    /\ ev' = Event("handleRunAll", "completed", None, run.list)
    /\ UNCHANGED <<panel, scenarios, newQuery, clock, edits, chatVars, cVars, quickVars, confVars, ragVars>>

\* handleAddScenario; the new id is Date.now(), and time has moved on by the
\* next call.
HandleAddScenario ==
    /\ panel = "TestRetrieval"
    /\ IF Trim(newQuery) = <<>>
       THEN /\ ev' = Event("handleAddScenario", "rejected", None, newQuery)
            /\ UNCHANGED <<scenarios, newQuery, clock, edits>>
       ELSE /\ edits < MaxEdits
            /\ edits' = edits + 1
            /\ scenarios' = Append(scenarios, [id |-> clock, query |-> Trim(newQuery)])
            /\ newQuery' = <<>>
            /\ clock' = clock + 1
            /\ ev' = Event("handleAddScenario", "added", None, newQuery)
    /\ UNCHANGED <<panel, results, isRunningAll, progress, runs, chatVars, cVars, quickVars, confVars, ragVars>>

\* handleRemoveScenario(id), from the remove button of a listed scenario.
HandleRemoveScenario ==
    /\ panel = "TestRetrieval"
    /\ edits < MaxEdits
    /\ edits' = edits + 1
    /\ \E j \in 1..Len(scenarios) :
        /\ scenarios' = WithoutId(scenarios, scenarios[j].id)
        /\ results' = IF scenarios[j].id \in DOMAIN results
                      THEN MapDelete(results, scenarios[j].id) ELSE results
        /\ ev' = Event("handleRemoveScenario", "removed", None, scenarios[j].id)
    /\ UNCHANGED <<panel, newQuery, isRunningAll, progress, runs, clock, chatVars, cVars, quickVars, confVars, ragVars>>

----
\* onChange={(e) => setSingleQuery(e.target.value)}
SetSingleQuery(t) ==
    /\ panel = "TestRetrieval"
    /\ singleQuery' = t
    /\ ev' = Event("setSingleQuery", "set", None, t)
    /\ UNCHANGED <<panel, singleResult, isRunningSingle, singles, chatVars, cVars,
                   trVars, confVars, ragVars>>

\* What a render of TestRetrieval holds apart from the quick test: the
\* scenario list, the results, the batch run and the metrics of lines 73-82.
BatchView ==
    [scenarios |-> scenarios, results |-> results, progress |-> progress,
     isRunningAll |-> isRunningAll, runs |-> runs,
     completed |-> Len(completedTests), successful |-> Len(successfulTests),
     failed |-> Len(failedTests), avgDuration |-> avgDuration, avgScore |-> avgScore]

\* What a step of handleRunSingle saw when it began.
SingleSaw == [singles |-> singles, singleResult |-> singleResult, batch |-> BatchView]

\* How handleRunSingle is called: the Test button (disabled={isRunningSingle})
\* or the Enter key in the query field (onKeyPress, with no condition).
RunSingleOffered_ButtonAlways(via) == TRUE
RunSingleOffered(via) == via = "enter" \/ ~isRunningSingle

\* The state handleRunSingle writes when runSingleTest has returned result.
SingleOutcome_IntoResults(result) ==
    [single |-> Some(result), map |-> MapSet(results, 0, result)]
SingleOutcome(result) == [single |-> Some(result), map |-> results]

\* handleRunSingle up to its await of runSingleTest(singleQuery).
HandleRunSingle ==
    /\ panel = "TestRetrieval"
    /\ \E via \in {"button", "enter"} :
        /\ RunSingleOffered(via)
        /\ IF Trim(singleQuery) = <<>>
           THEN /\ ev' = Event("handleRunSingle", "rejected", SingleSaw, via)
                /\ UNCHANGED <<singleResult, isRunningSingle, singles>>
           ELSE /\ Len(singles) < MaxSingles
                /\ isRunningSingle' = TRUE
                /\ singleResult' = None
                /\ singles' = Append(singles, [query |-> singleQuery])
                /\ ev' = Event("handleRunSingle", "started", SingleSaw, via)
    /\ UNCHANGED <<panel, singleQuery, chatVars, cVars, trVars, confVars, ragVars>>

\* handleRunSingle from the return of runSingleTest to its end.
RunSingleDone ==
    /\ panel = "TestRetrieval"
    /\ \E k \in 1..Len(singles), r \in TestResponses :
        LET outcome == SingleOutcome(runSingleTest(singles[k].query, r))
        IN  /\ singleResult' = outcome.single
            /\ results' = outcome.map
            /\ isRunningSingle' = FALSE
            /\ singles' = RemoveAt(singles, k)
            /\ ev' = Event("handleRunSingle", "finished", SingleSaw, r)
    /\ UNCHANGED <<panel, singleQuery, chatVars, cVars, confVars, ragVars, scenarios, newQuery,
                   isRunningAll, progress, runs, clock, edits>>

\* A number as JSON text and back.  JSON.stringify writes the shortest decimal
\* that reads back as the same number, so the text stands for the value of
\* the quotient and not for the numerator and denominator it was computed
\* from: it is kept as the quotient in lowest terms.
RECURSIVE Gcd(_, _)
Gcd(a, b) == IF b = 0 THEN a ELSE Gcd(b, a % b)

NumberText_TwoDecimals(q) == [digits |-> Ratio((q.num * 100) \div q.den, 100)]
NumberText(q) ==
    LET g == Gcd(q.num, q.den)
    IN  [digits |-> IF q.num = 0 THEN Zero ELSE Ratio(q.num \div g, q.den \div g)]

ParseNumber(t) == t.digits

\* Two quotients are the same number.
SameNumber(a, b) == a.num * b.den = b.num * a.den

\* Array.from(results.entries()).map(([id, result]) => ({ scenario_id: id, ...result }))
RECURSIVE EntriesOf(_, _)
EntriesOf(map, ids) ==
    IF ids = {} THEN <<>>
    ELSE LET least == CHOOSE x \in ids : \A y \in ids : x <= y
         IN  << [scenario_id |-> least,
                 query |-> map[least].query,
                 results_count |-> map[least].results_count,
                 results |-> map[least].results,
                 duration_seconds |-> map[least].duration_seconds,
                 status |-> map[least].status] >>
             \o EntriesOf(map, ids \ {least})

\* The object exportResults builds from the render's metrics and results.
ExportData ==
    [metrics |-> [total_tests |-> Ratio(Len(completedTests), 1),
                  successful |-> Ratio(Len(successfulTests), 1),
                  failed |-> Ratio(Len(failedTests), 1),
                  avg_duration |-> avgDuration,
                  avg_score |-> avgScore],
     results |-> EntriesOf(results, DOMAIN results)]

\* JSON.stringify(data, null, 2): the text of the downloaded file.
ExportText(data) ==
    [valid |-> TRUE,
     text |-> [metrics |-> [k \in DOMAIN data.metrics |-> NumberText(data.metrics[k])],
               results |-> [i \in 1..Len(data.results) |->
                   [data.results[i] EXCEPT
                       !.results_count = NumberText(Ratio(@, 1)),
                       !.duration_seconds = NumberText(Ratio(@, 1))]]]]

\* JSON.parse of the downloaded file.
ParseExport(file) ==
    [metrics |-> [k \in DOMAIN file.text.metrics |-> ParseNumber(file.text.metrics[k])],
     results |-> [i \in 1..Len(file.text.results) |->
         [file.text.results[i] EXCEPT
             !.results_count = ParseNumber(@),
             !.duration_seconds = ParseNumber(@)]]]

\* exportResults, from the Export Results button, which is disabled while no
\* test has completed.  The file is the step's output; no state is set.
ExportResults ==
    /\ panel = "TestRetrieval"
    /\ Len(completedTests) # 0
    /\ ev' = Event("exportResults", "exported", None, ExportText(ExportData))
    /\ UNCHANGED <<panel, chatVars, cVars, trVars, quickVars, confVars, ragVars>>

----
\* Confessions (src/src/components/Confessions.tsx)

\* A confession of the list; reply is absent until the confession is replied.
Confession(id, message, reply) ==
    [id |-> id, message |-> message, reply |-> reply, isReplied |-> reply # None]

\* The backend's confessions when the panel mounts: one, with a reply.
ServerAtMount == { Confession(1, <<"m">>, Some(<<"r">>)) }

\* Text typed into the edit dialog and into the reply dialog.
EditTexts == { <<" ">>, <<"x">> }
ReplyTexts == { <<"y">> }

Filters == {"all", "replied", "not_replied"}

\* if (filter !== 'all') url += `?is_replied=${filter === 'replied'}`
IsRepliedParam(f) == IF f = "all" THEN None ELSE Some(f = "replied")

\* The backend: GET /confessions/ with the optional is_replied parameter,
\* GET /confessions/stats/summary, and the four mutating calls.
BackendList(table, param) ==
    IF param = None THEN table ELSE { c \in table : c.isReplied = The(param) }

BackendSummary(table) ==
    [total |-> Cardinality(table),
     replied |-> Cardinality({ c \in table : c.isReplied }),
     notReplied |-> Cardinality({ c \in table : ~c.isReplied })]

BackendApply(table, req) ==
    IF req.kind = "delete" THEN { c \in table : c.id # req.id }
    ELSE { IF c.id # req.id THEN c
           ELSE IF req.kind = "edit" THEN Confession(c.id, req.text, c.reply)
           ELSE IF req.kind = "reply" THEN Confession(c.id, c.message, Some(req.text))
           ELSE Confession(c.id, c.message, None) : c \in table }

\* The dialogs are modal: the page under an open dialog takes no input.
NoDialogOpen ==
    ~(isReplyDialogOpen \/ isViewDialogOpen \/ isEditDialogOpen
      \/ isDeleteDialogOpen \/ isDeleteReplyDialogOpen)

\* The requests fetchConfessions and fetchStats send.  views are the states
\* the backend has had since the request was sent: it answers from one of
\* them.  cause is the mutating request whose success sent this one, if any.
ListRequest(f, cause) ==
    [kind |-> "list", param |-> IsRepliedParam(f), views |-> {server}, cause |-> cause]
StatsRequest(cause) ==
    [kind |-> "stats", param |-> None, views |-> {server}, cause |-> cause]

\* What is kept of a refetch that a mutating request caused, once answered.
Settled(get, ok) ==
    IF get.cause = None THEN {}
    ELSE { [n |-> The(get.cause).n, kind |-> get.kind, ok |-> ok] }

\* The mount effect: fetchConfessions() up to its fetch, and fetchStats().
ConfMount ==
    /\ panel = "Confessions"
    /\ effectRuns = 0
    /\ effectRuns' = 1
    /\ loading' = TRUE
    /\ gets' = gets \o << ListRequest(filter, None), StatsRequest(None) >>
    /\ ev' = Event("mount", "fetching", None, filter)
    /\ UNCHANGED <<confessions, stats, actionLoading, formVars, dialogVars, filter,
                   server, acts, issued, settled, notConfVars>>

\* onValueChange={setFilter}, and the effect on [filter] that the change runs.
SetFilter(f) ==
    /\ panel = "Confessions"
    /\ effectRuns > 0 /\ effectRuns <= MaxFilters
    /\ NoDialogOpen
    /\ f # filter
    /\ filter' = f
    /\ effectRuns' = effectRuns + 1
    /\ loading' = TRUE
    /\ gets' = gets \o << ListRequest(f, None), StatsRequest(None) >>
    /\ ev' = Event("setFilter", "fetching", None, f)
    /\ UNCHANGED <<confessions, stats, actionLoading, formVars, dialogVars,
                   server, acts, issued, settled, notConfVars>>

\* fetchConfessions from the answer to its fetch to the end of its finally.
FetchConfessionsDone ==
    /\ panel = "Confessions"
    /\ \E i \in 1..Len(gets), ok \in BOOLEAN :
        /\ gets[i].kind = "list"
        /\ \E view \in gets[i].views :
              confessions' = IF ok THEN BackendList(view, gets[i].param) ELSE confessions
        /\ loading' = FALSE
        /\ gets' = RemoveAt(gets, i)
        /\ settled' = settled \cup Settled(gets[i], ok)
        /\ ev' = Event("fetchConfessions", IF ok THEN "loaded" ELSE "toast", gets[i].cause, ok)
    /\ UNCHANGED <<stats, actionLoading, formVars, dialogVars, filter, server, acts,
                   issued, effectRuns, notConfVars>>

\* fetchStats from the answer to its fetch; a failure is only logged.
FetchStatsDone ==
    /\ panel = "Confessions"
    /\ \E i \in 1..Len(gets), ok \in BOOLEAN :
        /\ gets[i].kind = "stats"
        /\ \E view \in gets[i].views :
              stats' = IF ok THEN BackendSummary(view) ELSE stats
        /\ gets' = RemoveAt(gets, i)
        /\ settled' = settled \cup Settled(gets[i], ok)
        /\ ev' = Event("fetchStats", IF ok THEN "loaded" ELSE "logged", gets[i].cause, ok)
    /\ UNCHANGED <<confessions, loading, actionLoading, formVars, dialogVars, filter,
                   server, acts, issued, effectRuns, notConfVars>>

\* The row buttons are rendered when the list is not loading, and reached when
\* no dialog is open.
RowOffered(c) == ~loading /\ c \in confessions /\ NoDialogOpen

OpenViewDialog ==
    /\ panel = "Confessions"
    /\ \E c \in confessions :
        /\ RowOffered(c)
        /\ selectedConfession' = Some(c)
        /\ isViewDialogOpen' = TRUE
        /\ ev' = Event("openViewDialog", "opened", None, c.id)
    /\ UNCHANGED <<confessions, stats, loading, actionLoading, replyText, editedMessage,
                   isReplyDialogOpen, isEditDialogOpen, isDeleteDialogOpen,
                   isDeleteReplyDialogOpen, filter, server, gets, acts, issued,
                   effectRuns, settled, notConfVars>>

OpenEditDialog ==
    /\ panel = "Confessions"
    /\ \E c \in confessions :
        /\ RowOffered(c)
        /\ selectedConfession' = Some(c)
        /\ editedMessage' = c.message
        /\ isEditDialogOpen' = TRUE
        /\ ev' = Event("openEditDialog", "opened", None, c.id)
    /\ UNCHANGED <<confessions, stats, loading, actionLoading, replyText,
                   isReplyDialogOpen, isViewDialogOpen, isDeleteDialogOpen,
                   isDeleteReplyDialogOpen, filter, server, gets, acts, issued,
                   effectRuns, settled, notConfVars>>

\* setReplyText(confession.reply || '')
OpenReplyDialog ==
    /\ panel = "Confessions"
    /\ \E c \in confessions :
        /\ RowOffered(c)
        /\ selectedConfession' = Some(c)
        /\ replyText' = OrEmpty(c.reply)
        /\ isReplyDialogOpen' = TRUE
        /\ ev' = Event("openReplyDialog", "opened", None, c.id)
    /\ UNCHANGED <<confessions, stats, loading, actionLoading, editedMessage,
                   isViewDialogOpen, isEditDialogOpen, isDeleteDialogOpen,
                   isDeleteReplyDialogOpen, filter, server, gets, acts, issued,
                   effectRuns, settled, notConfVars>>

OpenDeleteDialog ==
    /\ panel = "Confessions"
    /\ \E c \in confessions :
        /\ RowOffered(c)
        /\ selectedConfession' = Some(c)
        /\ isDeleteDialogOpen' = TRUE
        /\ ev' = Event("openDeleteDialog", "opened", None, c.id)
    /\ UNCHANGED <<confessions, stats, loading, actionLoading, replyText, editedMessage,
                   isReplyDialogOpen, isViewDialogOpen, isEditDialogOpen,
                   isDeleteReplyDialogOpen, filter, server, gets, acts, issued,
                   effectRuns, settled, notConfVars>>

\* The Delete Reply button of the view dialog, rendered for a replied
\* confession: openDeleteReplyDialog(selectedConfession).
OpenDeleteReplyDialog ==
    /\ panel = "Confessions"
    /\ isViewDialogOpen /\ ~isDeleteReplyDialogOpen
    /\ selectedConfession # None
    /\ The(selectedConfession).isReplied
    /\ isDeleteReplyDialogOpen' = TRUE
    /\ ev' = Event("openDeleteReplyDialog", "opened", None, The(selectedConfession).id)
    /\ UNCHANGED <<confessions, stats, loading, actionLoading, formVars,
                   isReplyDialogOpen, isViewDialogOpen, isEditDialogOpen,
                   isDeleteDialogOpen, filter, server, gets, acts, issued,
                   effectRuns, settled, notConfVars>>

\* onOpenChange(false) of a dialog (Escape, the close button, a click outside)
\* and its Cancel button: the open flag is cleared and nothing else.  The
\* view dialog is under the delete-reply confirmation while that is open.
CloseDialog ==
    /\ panel = "Confessions"
    /\ \E d \in {"reply", "view", "edit", "delete", "deleteReply"} :
        /\ CASE d = "reply" -> isReplyDialogOpen
             [] d = "view" -> isViewDialogOpen /\ ~isDeleteReplyDialogOpen
             [] d = "edit" -> isEditDialogOpen
             [] d = "delete" -> isDeleteDialogOpen
             [] OTHER -> isDeleteReplyDialogOpen
        /\ isReplyDialogOpen' = (isReplyDialogOpen /\ d # "reply")
        /\ isViewDialogOpen' = (isViewDialogOpen /\ d # "view")
        /\ isEditDialogOpen' = (isEditDialogOpen /\ d # "edit")
        /\ isDeleteDialogOpen' = (isDeleteDialogOpen /\ d # "delete")
        /\ isDeleteReplyDialogOpen' = (isDeleteReplyDialogOpen /\ d # "deleteReply")
        /\ ev' = Event("onOpenChange", "closed", None, d)
    /\ UNCHANGED <<confessions, stats, loading, actionLoading, formVars, filter,
                   server, gets, acts, issued, effectRuns, settled, notConfVars>>

\* onChange={(e) => setEditedMessage(e.target.value)} in the edit dialog.
SetEditedMessage(t) ==
    /\ panel = "Confessions"
    /\ isEditDialogOpen
    /\ editedMessage' = t
    /\ ev' = Event("setEditedMessage", "set", None, t)
    /\ UNCHANGED <<confessions, stats, loading, actionLoading, selectedConfession,
                   replyText, dialogVars, filter, server, gets, acts, issued,
                   effectRuns, settled, notConfVars>>

\* onChange={(e) => setReplyText(e.target.value)} in the reply dialog.
SetReplyText(t) ==
    /\ panel = "Confessions"
    /\ isReplyDialogOpen
    /\ replyText' = t
    /\ ev' = Event("setReplyText", "set", None, t)
    /\ UNCHANGED <<confessions, stats, loading, actionLoading, selectedConfession,
                   editedMessage, dialogVars, filter, server, gets, acts, issued,
                   effectRuns, settled, notConfVars>>

\* The action button of a dialog: disabled={actionLoading}, and for the edit
\* and reply dialogs also while the text is blank.
ActionOffered_WhileLoading(kind) ==
    CASE kind = "edit" -> isEditDialogOpen /\ Trim(editedMessage) # <<>>
      [] kind = "reply" -> isReplyDialogOpen /\ Trim(replyText) # <<>>
      [] kind = "deleteReply" -> isDeleteReplyDialogOpen
      [] OTHER -> isDeleteDialogOpen
ActionOffered(kind) ==
    /\ ~actionLoading
    /\ CASE kind = "edit" -> isEditDialogOpen /\ Trim(editedMessage) # <<>>
         [] kind = "reply" -> isReplyDialogOpen /\ Trim(replyText) # <<>>
         [] kind = "deleteReply" -> isDeleteReplyDialogOpen
         [] OTHER -> isDeleteDialogOpen

\* The open flag of a confirmation after a click on its AlertDialogAction,
\* before the handler's request is answered.
AfterActionClick(isOpen) == isOpen

\* A mutating request.  filter is the filter of the render the handler ran
\* in, which its fetchConfessions() reads; total and rows are what the
\* screen showed and count what the backend held when the handler ran.
ActionRequest(kind, text) ==
    [kind |-> kind, id |-> The(selectedConfession).id, text |-> text,
     filter |-> filter, n |-> issued + 1, phase |-> "sent",
     total |-> stats.total, count |-> Cardinality(server)]

\* handleEdit up to its fetch.
HandleEdit ==
    /\ panel = "Confessions"
    /\ ActionOffered("edit")
    /\ IF selectedConfession = None \/ Trim(editedMessage) = <<>>
       THEN /\ ev' = Event("handleEdit", "rejected", None, None)
            /\ UNCHANGED <<actionLoading, acts, issued>>
       ELSE /\ issued < MaxActions
            /\ actionLoading' = TRUE
            /\ acts' = Append(acts, ActionRequest("edit", editedMessage))
            /\ issued' = issued + 1
            /\ ev' = Event("handleEdit", "sent", None, acts'[Len(acts')])
    /\ UNCHANGED <<confessions, stats, loading, formVars, dialogVars, filter, server,
                   gets, effectRuns, settled, notConfVars>>

\* handleReply up to its fetch.
HandleReply ==
    /\ panel = "Confessions"
    /\ ActionOffered("reply")
    /\ IF selectedConfession = None \/ Trim(replyText) = <<>>
       THEN /\ ev' = Event("handleReply", "rejected", None, None)
            /\ UNCHANGED <<actionLoading, acts, issued>>
       ELSE /\ issued < MaxActions
            /\ actionLoading' = TRUE
            /\ acts' = Append(acts, ActionRequest("reply", replyText))
            /\ issued' = issued + 1
            /\ ev' = Event("handleReply", "sent", None, acts'[Len(acts')])
    /\ UNCHANGED <<confessions, stats, loading, formVars, dialogVars, filter, server,
                   gets, effectRuns, settled, notConfVars>>

\* handleDeleteReply up to its fetch, from the confirmation's action button.
HandleDeleteReply ==
    /\ panel = "Confessions"
    /\ ActionOffered("deleteReply")
    /\ isDeleteReplyDialogOpen' = AfterActionClick(isDeleteReplyDialogOpen)
    /\ IF selectedConfession = None
       THEN /\ ev' = Event("handleDeleteReply", "rejected", None, None)
            /\ UNCHANGED <<actionLoading, acts, issued>>
       ELSE /\ issued < MaxActions
            /\ actionLoading' = TRUE
            /\ acts' = Append(acts, ActionRequest("deleteReply", <<>>))
            /\ issued' = issued + 1
            /\ ev' = Event("handleDeleteReply", "sent", None, acts'[Len(acts')])
    /\ UNCHANGED <<confessions, stats, loading, formVars, isReplyDialogOpen,
                   isViewDialogOpen, isEditDialogOpen, isDeleteDialogOpen, filter,
                   server, gets, effectRuns, settled, notConfVars>>

\* handleDelete up to its fetch, from the confirmation's action button.
HandleDelete ==
    /\ panel = "Confessions"
    /\ ActionOffered("delete")
    /\ isDeleteDialogOpen' = AfterActionClick(isDeleteDialogOpen)
    /\ IF selectedConfession = None
       THEN /\ ev' = Event("handleDelete", "rejected", None, None)
            /\ UNCHANGED <<actionLoading, acts, issued>>
       ELSE /\ issued < MaxActions
            /\ actionLoading' = TRUE
            /\ acts' = Append(acts, ActionRequest("delete", <<>>))
            /\ issued' = issued + 1
            /\ ev' = Event("handleDelete", "sent", None, acts'[Len(acts')])
    /\ UNCHANGED <<confessions, stats, loading, formVars, isReplyDialogOpen,
                   isViewDialogOpen, isEditDialogOpen, isDeleteReplyDialogOpen, filter,
                   server, gets, effectRuns, settled, notConfVars>>

\* The backend carries out a mutating request on a confession it holds; the
\* requests it has not answered yet may see the table before or after.
BackendApplies ==
    /\ panel = "Confessions"
    /\ \E i \in 1..Len(acts) :
        /\ acts[i].phase = "sent"
        /\ \E c \in server : c.id = acts[i].id
        /\ server' = BackendApply(server, acts[i])
        /\ acts' = [acts EXCEPT ![i].phase = "applied"]
        /\ gets' = [j \in 1..Len(gets) |->
                       [gets[j] EXCEPT !.views = @ \cup {server'}]]
        /\ ev' = Event("backend", "applied", None, acts[i].kind)
    /\ UNCHANGED <<confessions, stats, loading, actionLoading, formVars, dialogVars,
                   filter, issued, effectRuns, settled, notConfVars>>

\* What a render shows of the list, the dialogs and their fields.
ConfView ==
    [confessions |-> confessions, selectedConfession |-> selectedConfession,
     replyText |-> replyText, editedMessage |-> editedMessage,
     reply |-> isReplyDialogOpen, view |-> isViewDialogOpen, edit |-> isEditDialogOpen,
     delete |-> isDeleteDialogOpen, deleteReply |-> isDeleteReplyDialogOpen]

\* What the continuation of a mutating handler starts from.
ActionSaw(req) == [req |-> req, before |-> ConfView]

\* A mutating request is answered: with success once the backend has carried
\* it out, with a failure (fetch rejects or the status is not ok) otherwise.
Answered(req, ok) == req.phase = (IF ok THEN "applied" ELSE "sent")

\* The catch block of a mutating handler: a toast, and no setter of a dialog,
\* of the selection or of a text.
OpenAfterFailure_Closes(isOpen) == FALSE
OpenAfterFailure(isOpen) == isOpen

\* handleEdit from the answer to its fetch to the end of its finally.
HandleEditDone ==
    /\ panel = "Confessions"
    /\ \E i \in 1..Len(acts), ok \in BOOLEAN :
        /\ acts[i].kind = "edit"
        /\ Answered(acts[i], ok)
        /\ IF ok
           THEN /\ isEditDialogOpen' = FALSE
                /\ editedMessage' = <<>>
                /\ selectedConfession' = None
                /\ loading' = TRUE
                /\ gets' = Append(gets, ListRequest(acts[i].filter, Some(acts[i])))
           ELSE /\ isEditDialogOpen' = OpenAfterFailure(isEditDialogOpen)
                /\ UNCHANGED <<editedMessage, selectedConfession, loading, gets>>
        /\ actionLoading' = FALSE
        /\ acts' = RemoveAt(acts, i)
        /\ ev' = Event("handleEdit", IF ok THEN "succeeded" ELSE "failed",
                       ActionSaw(acts[i]), ok)
    /\ UNCHANGED <<confessions, stats, replyText, isReplyDialogOpen, isViewDialogOpen,
                   isDeleteDialogOpen, isDeleteReplyDialogOpen, filter, server, issued,
                   effectRuns, settled, notConfVars>>

\* handleReply from the answer to its fetch to the end of its finally.
HandleReplyDone ==
    /\ panel = "Confessions"
    /\ \E i \in 1..Len(acts), ok \in BOOLEAN :
        /\ acts[i].kind = "reply"
        /\ Answered(acts[i], ok)
        /\ IF ok
           THEN /\ isReplyDialogOpen' = FALSE
                /\ replyText' = <<>>
                /\ selectedConfession' = None
                /\ loading' = TRUE
                /\ gets' = gets \o << ListRequest(acts[i].filter, Some(acts[i])),
                                     StatsRequest(Some(acts[i])) >>
           ELSE /\ isReplyDialogOpen' = OpenAfterFailure(isReplyDialogOpen)
                /\ UNCHANGED <<replyText, selectedConfession, loading, gets>>
        /\ actionLoading' = FALSE
        /\ acts' = RemoveAt(acts, i)
        /\ ev' = Event("handleReply", IF ok THEN "succeeded" ELSE "failed",
                       ActionSaw(acts[i]), ok)
    /\ UNCHANGED <<confessions, stats, editedMessage, isViewDialogOpen, isEditDialogOpen,
                   isDeleteDialogOpen, isDeleteReplyDialogOpen, filter, server, issued,
                   effectRuns, settled, notConfVars>>

\* handleDeleteReply from the answer to its fetch to the end of its finally.
HandleDeleteReplyDone ==
    /\ panel = "Confessions"
    /\ \E i \in 1..Len(acts), ok \in BOOLEAN :
        /\ acts[i].kind = "deleteReply"
        /\ Answered(acts[i], ok)
        /\ IF ok
           THEN /\ isDeleteReplyDialogOpen' = FALSE
                /\ isViewDialogOpen' = FALSE
                /\ selectedConfession' = None
                /\ loading' = TRUE
                /\ gets' = gets \o << ListRequest(acts[i].filter, Some(acts[i])),
                                     StatsRequest(Some(acts[i])) >>
           ELSE /\ isDeleteReplyDialogOpen' = OpenAfterFailure(isDeleteReplyDialogOpen)
                /\ UNCHANGED <<isViewDialogOpen, selectedConfession, loading, gets>>
        /\ actionLoading' = FALSE
        /\ acts' = RemoveAt(acts, i)
        /\ ev' = Event("handleDeleteReply", IF ok THEN "succeeded" ELSE "failed",
                       ActionSaw(acts[i]), ok)
    /\ UNCHANGED <<confessions, stats, replyText, editedMessage, isReplyDialogOpen,
                   isEditDialogOpen, isDeleteDialogOpen, filter, server, issued,
                   effectRuns, settled, notConfVars>>

\* The refetches a successful handleDelete sends.
DeleteRefetch_ListOnly(req) == << ListRequest(req.filter, Some(req)) >>
DeleteRefetch(req) == << ListRequest(req.filter, Some(req)), StatsRequest(Some(req)) >>

\* handleDelete from the answer to its fetch to the end of its finally.
HandleDeleteDone ==
    /\ panel = "Confessions"
    /\ \E i \in 1..Len(acts), ok \in BOOLEAN :
        /\ acts[i].kind = "delete"
        /\ Answered(acts[i], ok)
        /\ IF ok
           THEN /\ isDeleteDialogOpen' = FALSE
                /\ selectedConfession' = None
                /\ loading' = TRUE
                /\ gets' = gets \o DeleteRefetch(acts[i])
           ELSE /\ isDeleteDialogOpen' = OpenAfterFailure(isDeleteDialogOpen)
                /\ UNCHANGED <<selectedConfession, loading, gets>>
        /\ actionLoading' = FALSE
        /\ acts' = RemoveAt(acts, i)
        /\ ev' = Event("handleDelete", IF ok THEN "succeeded" ELSE "failed",
                       ActionSaw(acts[i]), ok)
    /\ UNCHANGED <<confessions, stats, replyText, editedMessage, isReplyDialogOpen,
                   isViewDialogOpen, isEditDialogOpen, isDeleteReplyDialogOpen, filter,
                   server, issued, effectRuns, settled, notConfVars>>

----
\* RagConfig (src/src/components/RagConfig.tsx)

\* The answers to GET /config and to GET /health/detailed: a failure (fetch
\* rejects, status not ok, body not JSON) or one of two snapshots.
RagResponses ==
    { [ok |-> FALSE, data |-> None],
      [ok |-> TRUE, data |-> Some("snapshot1")],
      [ok |-> TRUE, data |-> Some("snapshot2")] }

\* How the promise of fetchConfig() / fetchHealth() settles: the try/catch
\* inside them handles every failure, so the promise is always fulfilled.
FetchSettles_Rethrows(ok) == IF ok THEN "fulfilled" ELSE "rejected"
FetchSettles(ok) == "fulfilled"

\* await Promise.all([fetchConfig(), fetchHealth()])
PromiseAll(call) ==
    IF "rejected" \in {call.config, call.health} THEN "rejected"
    ELSE IF "pending" \in {call.config, call.health} THEN "pending"
    ELSE "fulfilled"

\* An invocation of loadAll or handleRefresh at its await.
RagCall(handler) ==
    [handler |-> handler, config |-> "pending", health |-> "pending", failed |-> {}]

\* The rest of loadAll / handleRefresh runs when Promise.all is fulfilled; if
\* Promise.all is rejected the handler ends there and its flag stays as it is.
FlagAfter(flag, handler, call, before) ==
    IF call.handler = handler /\ PromiseAll(before) = "pending"
       /\ PromiseAll(call) = "fulfilled"
    THEN FALSE ELSE flag

\* The calls still waiting for a fetch once call k has become call.
CallsAfter(k, call) ==
    IF "pending" \in {call.config, call.health}
    THEN [rCalls EXCEPT ![k] = call] ELSE RemoveAt(rCalls, k)

\* What a step of fetchConfig / fetchHealth has done: a toast on failure, and
\* whether the handler that called it went on, was left waiting, or ended
\* with a rejection nothing handles.
RagOutcome(ok, call, before) ==
    [fetch |-> IF ok THEN "loaded" ELSE "toast",
     handler |-> call.handler,
     then |-> IF PromiseAll(before) # "pending" THEN "over"
              ELSE IF PromiseAll(call) = "rejected" THEN "unhandled"
              ELSE IF PromiseAll(call) = "fulfilled" THEN "resumed"
              ELSE "waiting",
     failed |-> call.failed]

\* The mount effect: loadAll() up to its await.
RagMount ==
    /\ panel = "RagConfig"
    /\ rIssued = 0
    /\ rIssued' = 1
    /\ rLoading' = TRUE
    /\ rCalls' = Append(rCalls, RagCall("loadAll"))
    /\ ev' = Event("loadAll", "fetching", None, None)
    /\ UNCHANGED <<rConfig, rHealth, rRefreshing, panel, chatVars, cVars, trVars,
                   quickVars, confVars>>

\* The Refresh button (rendered once loading is false, disabled={refreshing})
\* and handleRefresh up to its await.
HandleRefresh ==
    /\ panel = "RagConfig"
    /\ ~rLoading
    /\ ~rRefreshing
    /\ rIssued <= MaxRefreshes
    /\ rIssued' = rIssued + 1
    /\ rRefreshing' = TRUE
    /\ rCalls' = Append(rCalls, RagCall("handleRefresh"))
    /\ ev' = Event("handleRefresh", "fetching", None, None)
    /\ UNCHANGED <<rConfig, rHealth, rLoading, panel, chatVars, cVars, trVars,
                   quickVars, confVars>>

\* fetchConfig from the answer to its fetch, and the rest of the handler that
\* awaits it if this was the last of its two fetches.
FetchConfigDone ==
    /\ panel = "RagConfig"
    /\ \E k \in 1..Len(rCalls), r \in RagResponses :
        LET before == rCalls[k]
            call == [before EXCEPT !.config = FetchSettles(r.ok),
                                   !.failed = IF r.ok THEN @ ELSE @ \cup {"config"}]
        IN  /\ before.config = "pending"
            /\ rConfig' = IF r.ok THEN r.data ELSE rConfig
            /\ rLoading' = FlagAfter(rLoading, "loadAll", call, before)
            /\ rRefreshing' = FlagAfter(rRefreshing, "handleRefresh", call, before)
            /\ rCalls' = CallsAfter(k, call)
            /\ ev' = Event("fetchConfig", IF r.ok THEN "loaded" ELSE "toast",
                           RagOutcome(r.ok, call, before), r.ok)
    /\ UNCHANGED <<rHealth, rIssued, panel, chatVars, cVars, trVars, quickVars, confVars>>

\* fetchHealth from the answer to its fetch, and the rest of the handler that
\* awaits it if this was the last of its two fetches.
FetchHealthDone ==
    /\ panel = "RagConfig"
    /\ \E k \in 1..Len(rCalls), r \in RagResponses :
        LET before == rCalls[k]
            call == [before EXCEPT !.health = FetchSettles(r.ok),
                                   !.failed = IF r.ok THEN @ ELSE @ \cup {"health"}]
        IN  /\ before.health = "pending"
            /\ rHealth' = IF r.ok THEN r.data ELSE rHealth
            /\ rLoading' = FlagAfter(rLoading, "loadAll", call, before)
            /\ rRefreshing' = FlagAfter(rRefreshing, "handleRefresh", call, before)
            /\ rCalls' = CallsAfter(k, call)
            /\ ev' = Event("fetchHealth", IF r.ok THEN "loaded" ELSE "toast",
                           RagOutcome(r.ok, call, before), r.ok)
    /\ UNCHANGED <<rConfig, rIssued, panel, chatVars, cVars, trVars, quickVars, confVars>>

----
\* Error toasts

\* The toast.error calls of the step that handled the answer to a request,
\* panel by panel.  GroqChat: the catch of sendMessage.
GroqErrorToasts(e) == IF e.op = "response" /\ e.outcome = "caught" THEN 1 ELSE 0

\* Chat: the catch of handleSubmit calls setError, which renders the message
\* inside the panel; the component never calls toast.
ChatErrorToasts(e) == 0

\* TestRetrieval: handleRunSingle shows the error result of runSingleTest;
\* handleRunAll shows nothing for a scenario whose request failed.
TestErrorToasts(e) ==
    IF e.op = "handleRunSingle" /\ e.outcome = "finished" /\ ~e.arg.ok THEN 1 ELSE 0

\* Confessions: the catch of fetchConfessions and of the four mutating
\* handlers; the catch of fetchStats only writes to the console.
ConfErrorToasts(e) ==
    IF \/ e.op = "fetchConfessions" /\ e.outcome = "toast"
       \/ e.op \in {"handleEdit", "handleReply", "handleDeleteReply", "handleDelete"}
          /\ e.outcome = "failed"
    THEN 1 ELSE 0

\* RagConfig: the catch of fetchConfig and of fetchHealth.
RagErrorToasts(e) ==
    IF e.op \in {"fetchConfig", "fetchHealth"} /\ e.outcome = "toast" THEN 1 ELSE 0

ErrorToasts(e) ==
    CASE panel = "GroqChat" -> GroqErrorToasts(e)
      [] panel = "Chat" -> ChatErrorToasts(e)
      [] panel = "TestRetrieval" -> TestErrorToasts(e)
      [] panel = "Confessions" -> ConfErrorToasts(e)
      [] OTHER -> RagErrorToasts(e)

----
Panels == {"GroqChat", "Chat", "TestRetrieval"}

\* What the browser holds under 'chatHistory' when Chat mounts.
StoredAtMount ==
    { None,
      Some(Corrupt),
      Some(Stringify(<< ChatUserMessage(<<"a">>),
                        ChatMessage("assistant", Some("r1"), Some(<<>>)) >>)) }

\* Every component's state after construction.
Start ==
    /\ gMessages = <<>>
    /\ gInput = <<>>
    /\ gIsLoading = FALSE
    /\ gNet = <<>>
    /\ cStored \in (IF panel = "Chat" THEN StoredAtMount ELSE {None})
    /\ cMessages = <<>>
    /\ cReads = 0
    /\ cIsClearDialogOpen = FALSE
    /\ cMessage = <<>>
    /\ cIsLoading = FALSE
    /\ cError = None
    /\ cSources = <<>>
    /\ cNet = <<>>
    /\ scenarios = DEFAULT_SCENARIOS
    /\ results = NoResults
    /\ newQuery = <<>>
    /\ isRunningAll = FALSE
    /\ progress = Zero
    /\ runs = <<>>
    /\ clock = FirstInstant
    /\ edits = 0
    /\ singleQuery = <<>>
    /\ singleResult = None
    /\ isRunningSingle = FALSE
    /\ singles = <<>>
    /\ confessions = {}
    /\ stats = [total |-> 0, replied |-> 0, notReplied |-> 0]
    /\ loading = TRUE
    /\ actionLoading = FALSE
    /\ selectedConfession = None
    /\ replyText = <<>>
    /\ editedMessage = <<>>
    /\ isReplyDialogOpen = FALSE
    /\ isViewDialogOpen = FALSE
    /\ isEditDialogOpen = FALSE
    /\ isDeleteDialogOpen = FALSE
    /\ isDeleteReplyDialogOpen = FALSE
    /\ filter = "all"
    /\ server = ServerAtMount
    /\ gets = <<>>
    /\ acts = <<>>
    /\ issued = 0
    /\ effectRuns = 0
    /\ settled = {}
    /\ rConfig = None
    /\ rHealth = None
    /\ rLoading = TRUE
    /\ rRefreshing = FALSE
    /\ rCalls = <<>>
    /\ rIssued = 0
    /\ ev = Event("mount", "mounted", None, None)

Init == panel \in Panels /\ Start

Next ==
    \/ \E t \in Texts : GroqSetInput(t)
    \/ GroqSendMessage
    \/ GroqRespond
    \/ GroqClearChat
    \/ ChatMount
    \/ \E t \in Texts : ChatSetMessage(t)
    \/ ChatHandleSubmit
    \/ ChatRespond
    \/ ChatOpenClearDialog
    \/ ChatCloseClearDialog
    \/ ChatConfirmClearHistory
    \/ \E t \in QueryTexts : SetNewQuery(t)
    \/ HandleRunAll
    \/ RunAllStep
    \/ HandleAddScenario
    \/ HandleRemoveScenario

Spec == Init /\ [][Next]_vars

\* The quick test and the export of TestRetrieval next to one batch run at a
\* time.  The quick test's handlers read and write only singleQuery,
\* singleResult and isRunningSingle, which no other handler of the component
\* touches, and the export only reads; the edits of the scenario list and
\* overlapping batch runs are in Spec.
InitQuick == Init /\ panel = "TestRetrieval"

NextQuick ==
    \/ \E t \in QueryTexts : SetSingleQuery(t)
    \/ HandleRunSingle
    \/ RunSingleDone
    \/ HandleRunAll /\ runs = <<>>
    \/ RunAllStep
    \/ ExportResults

SpecQuick == InitQuick /\ [][NextQuick]_vars

\* The Confessions panel with its backend: the dialogs and the mutating
\* requests, under the filter the panel mounts with.
InitConfessions == panel = "Confessions" /\ Start

NextConfessions ==
    \/ ConfMount
    \/ FetchConfessionsDone
    \/ FetchStatsDone
    \/ OpenViewDialog
    \/ OpenEditDialog
    \/ OpenReplyDialog
    \/ OpenDeleteDialog
    \/ OpenDeleteReplyDialog
    \/ CloseDialog
    \/ \E t \in EditTexts : SetEditedMessage(t)
    \/ \E t \in ReplyTexts : SetReplyText(t)
    \/ HandleEdit
    \/ HandleReply
    \/ HandleDeleteReply
    \/ HandleDelete
    \/ BackendApplies
    \/ HandleEditDone
    \/ HandleReplyDone
    \/ HandleDeleteReplyDone
    \/ HandleDeleteDone

SpecConfessions == InitConfessions /\ [][NextConfessions]_vars

\* The Confessions panel with its backend: the fetches of the list and of the
\* statistics under changes of the filter, and the delete of a confession.
NextFetches ==
    \/ ConfMount
    \/ \E f \in Filters : SetFilter(f)
    \/ FetchConfessionsDone
    \/ FetchStatsDone
    \/ OpenDeleteDialog
    \/ CloseDialog
    \/ HandleDelete
    \/ BackendApplies
    \/ HandleDeleteDone

SpecFetches == InitConfessions /\ [][NextFetches]_vars


----
\* RagConfig on its own.
AllPanels == Panels \cup {"Confessions", "RagConfig"}

InitRag == panel = "RagConfig" /\ Start

NextRag ==
    \/ RagMount
    \/ HandleRefresh
    \/ FetchConfigDone
    \/ FetchHealthDone

\* The requests of every panel, from the step that sends one to the step that
\* handles its answer, with one text for each field.  The quick test and the
\* batch run of TestRetrieval are taken in separate behaviours.
InitLive == panel \in AllPanels /\ Start

BatchUntouched == runs = <<>> /\ results = NoResults
QuickUntouched == singles = <<>> /\ singleResult = None /\ singleQuery = <<>>

NextLive ==
    \/ GroqSetInput(<<"a">>)
    \/ GroqSendMessage
    \/ GroqRespond
    \/ ChatMount
    \/ ChatSetMessage(<<"a">>)
    \/ ChatHandleSubmit
    \/ ChatRespond
    \/ BatchUntouched /\ SetSingleQuery(<<"a", " ">>)
    \/ BatchUntouched /\ HandleRunSingle
    \/ RunSingleDone
    \/ QuickUntouched /\ runs = <<>> /\ HandleRunAll
    \/ RunAllStep
    \/ ConfMount
    \/ FetchConfessionsDone
    \/ FetchStatsDone
    \/ OpenViewDialog
    \/ OpenEditDialog
    \/ OpenReplyDialog
    \/ OpenDeleteDialog
    \/ OpenDeleteReplyDialog
    \/ SetEditedMessage(<<"x">>)
    \/ HandleEdit
    \/ HandleReply
    \/ HandleDeleteReply
    \/ HandleDelete
    \/ BackendApplies
    \/ HandleEditDone
    \/ HandleReplyDone
    \/ HandleDeleteReplyDone
    \/ HandleDeleteDone
    \/ NextRag

\* Every request a browser sends is settled in the end, with an answer or
\* with a rejection, so each step that handles an answer is taken once it
\* can be.
EveryRequestSettles ==
    /\ WF_vars(GroqRespond)
    /\ WF_vars(ChatRespond)
    /\ WF_vars(RunAllStep)
    /\ WF_vars(RunSingleDone)
    /\ WF_vars(FetchConfessionsDone)
    /\ WF_vars(FetchStatsDone)
    /\ WF_vars(BackendApplies)
    /\ WF_vars(HandleEditDone)
    /\ WF_vars(HandleReplyDone)
    /\ WF_vars(HandleDeleteReplyDone)
    /\ WF_vars(HandleDeleteDone)
    /\ WF_vars(FetchConfigDone)
    /\ WF_vars(FetchHealthDone)

SpecLive == InitLive /\ [][NextLive]_vars /\ EveryRequestSettles

----
\* Properties of the chat clients.

\* The step just taken was a chat client's submit handler / its continuation.
GroqStep(op) == panel = "GroqChat" /\ ev'.op = op
ChatStep(op) == panel = "Chat" /\ ev'.op = op

\* The kinds of failure of a POST /chat: the fetch rejects, the status is not
\* 2xx, the body cannot be read, the body carries an error field.
Transport(r) == ~r.net \/ ~r.ok \/ ~r.body.json
Envelope(r) == r.net /\ r.body.json /\ r.body.error # None
RequestFailed(r) == Transport(r) \/ Envelope(r)

\* C1: in both chat clients a submit whose input is empty or whitespace-only
\* sends no request and appends no message: transcript, requests in flight and
\* in-flight flag are unchanged by it.
C1_BlankSubmitIsNoOp ==
    [][ /\ (GroqStep("sendMessage") /\ Trim(gInput) = <<>>)
              => UNCHANGED <<gMessages, gNet, gIsLoading>>
        /\ (ChatStep("handleSubmit") /\ Trim(cMessage) = <<>>)
              => UNCHANGED <<cMessages, cNet, cIsLoading, cStored>> ]_vars

\* A whitespace-only text has just been submitted, with no request in flight.
C1_Witness ==
    /\ panel = "GroqChat"
    /\ ev.op = "sendMessage"
    /\ ev.arg # <<>>
    /\ Trim(ev.arg) = <<>>
    /\ ~gIsLoading

\* C2: in both chat clients a submit made while a request is in flight is a
\* no-op (no request sent, no message appended), and at most one POST /chat is
\* in flight at any time.
C2_SingleFlight ==
    /\ [](Len(gNet) <= 1 /\ Len(cNet) <= 1)
    /\ [][ /\ (GroqStep("sendMessage") /\ gNet # <<>>) => UNCHANGED <<gMessages, gNet>>
           /\ (ChatStep("handleSubmit") /\ cNet # <<>>) => UNCHANGED <<cMessages, cNet>> ]_vars

\* A text that is not blank has just been submitted while a request was in flight.
C2_Witness ==
    /\ panel = "GroqChat"
    /\ ev.op = "sendMessage"
    /\ Trim(ev.arg) # <<>>
    /\ Len(gNet) = 1
    /\ Len(ev.saw) = Len(gMessages)

\* C3 as stated: on success exactly one assistant message is appended at the
\* end, carrying the server's response text, sources and timing fields, in
\* GroqChat and in Chat alike.
C3_AsStated ==
    [][ /\ (GroqStep("response") /\ ~RequestFailed(ev'.arg)) =>
              /\ Len(gMessages') = Len(gMessages) + 1
              /\ SubSeq(gMessages', 1, Len(gMessages)) = gMessages
              /\ LET m == gMessages'[Len(gMessages')]
                     data == ev'.arg.body
                 IN  /\ m.role = "assistant"
                     /\ m.content = data.response
                     /\ m.sources = data.sources
                     /\ m.duration = data.duration_seconds
                     /\ m.apiDuration = data.api_duration_seconds
        /\ (ChatStep("response") /\ ~RequestFailed(ev'.arg)) =>
              /\ Len(cMessages') = Len(cMessages) + 1
              /\ SubSeq(cMessages', 1, Len(cMessages)) = cMessages
              /\ LET m == cMessages'[Len(cMessages')]
                     data == ev'.arg.body
                 IN  /\ m.type = "assistant"
                     /\ m.content = data.response
                     /\ m.sources = data.sources
                     /\ {"duration", "apiDuration"} \subseteq DOMAIN m
                     /\ m.duration = data.duration_seconds
                     /\ m.apiDuration = data.api_duration_seconds ]_vars

\* C3 amended: on success exactly one assistant message is appended at the end;
\* in GroqChat it carries the server's response text, sources and both timing
\* fields; in Chat it carries the response text and the sources (an empty list
\* when the server sent none) and no timing field.
C3_AssistantAppended ==
    [][ /\ (GroqStep("response") /\ ~RequestFailed(ev'.arg)) =>
              /\ Len(gMessages') = Len(gMessages) + 1
              /\ SubSeq(gMessages', 1, Len(gMessages)) = gMessages
              /\ LET m == gMessages'[Len(gMessages')]
                     data == ev'.arg.body
                 IN  /\ m.role = "assistant"
                     /\ m.content = data.response
                     /\ m.sources = data.sources
                     /\ m.duration = data.duration_seconds
                     /\ m.apiDuration = data.api_duration_seconds
        /\ (ChatStep("response") /\ ~RequestFailed(ev'.arg)) =>
              /\ Len(cMessages') = Len(cMessages) + 1
              /\ SubSeq(cMessages', 1, Len(cMessages)) = cMessages
              /\ LET m == cMessages'[Len(cMessages')]
                     data == ev'.arg.body
                 IN  /\ m.type = "assistant"
                     /\ m.content = data.response
                     /\ m.sources = (IF data.sources = None THEN Some(<<>>)
                                     ELSE data.sources)
                     /\ DOMAIN m = {"type", "content", "sources", "timestamp"} ]_vars

\* GroqChat has just appended the answer to a request that succeeded.
C3_Witness ==
    /\ panel = "GroqChat"
    /\ ev.op = "response"
    /\ ~RequestFailed(ev.arg)
    /\ Len(gMessages) >= 2
    /\ gMessages[Len(gMessages)].role = "assistant"
    /\ gMessages[Len(gMessages)].duration = Some(3)

\* C4 as stated: in Chat, after a failed request the transcript equals the
\* transcript before the submit (the user message is removed again).
C4_AsStated ==
    (panel = "Chat" /\ ev.op = "response" /\ RequestFailed(ev.arg))
        => cMessages = ev.saw.before

\* C4 amended: in Chat a failed request leaves the transcript as it is; the
\* just-added user message stays, so the transcript after the failure is the
\* pre-submit transcript followed by that user message, or empty when the chat
\* was cleared while the request was in flight.
C4_ChatKeepsUserMessage ==
    [][ (ChatStep("response") /\ RequestFailed(ev'.arg)) =>
            /\ cMessages' = cMessages
            /\ \/ cMessages' = Append(ev'.saw.before, ChatUserMessage(ev'.saw.message))
               \/ cMessages' = <<>> ]_vars

\* A request of Chat has just failed and its user message is still the last one.
C4_Witness ==
    /\ panel = "Chat"
    /\ ev.op = "response"
    /\ RequestFailed(ev.arg)
    /\ cMessages = Append(ev.saw.before, ChatUserMessage(ev.saw.message))
    /\ cError # None

\* C5 as stated: in GroqChat, after a failed request the transcript is the
\* pre-submit transcript followed by the just-added user message.
C5_AsStated ==
    (panel = "GroqChat" /\ ev.op = "response" /\ Transport(ev.arg))
        => gMessages = Append(ev.saw.before, GroqUserMessage(ev.saw.message))

\* C5 amended: in GroqChat, when the request fails by a rejected fetch, a
\* non-2xx status or an unreadable body, the last message of the transcript is
\* removed: the just-added user message, so that the transcript is the
\* pre-submit transcript again, unless the chat was cleared while the request
\* was in flight, and then the transcript stays empty.
C5_GroqRemovesUserMessage ==
    [][ (GroqStep("response") /\ Transport(ev'.arg)) =>
            \/ /\ gMessages = Append(ev'.saw.before, GroqUserMessage(ev'.saw.message))
               /\ gMessages' = ev'.saw.before
            \/ /\ gMessages = <<>>
               /\ gMessages' = <<>> ]_vars

\* A request of GroqChat has just failed with a transcript that was not empty
\* before the submit, and the transcript is that one again.
C5_Witness ==
    /\ panel = "GroqChat"
    /\ ev.op = "response"
    /\ Transport(ev.arg)
    /\ ev.saw.before # <<>>
    /\ gMessages = ev.saw.before

\* C6: in both chat clients a response whose status is not 2xx or whose body
\* carries an error field appends no assistant message to the transcript.
C6_FailureAppendsNothing ==
    [][ /\ (GroqStep("response") /\ RequestFailed(ev'.arg))
              => Len(gMessages') <= Len(gMessages)
        /\ (ChatStep("response") /\ RequestFailed(ev'.arg))
              => Len(cMessages') <= Len(cMessages) ]_vars

----
\* Properties of the retrieval test harness.

IdsOf(list) == { list[j].id : j \in 1..Len(list) }

\* The progress value is 100 percent.
ProgressFull == progress.num = 100 * progress.den

\* The results that are not pending.
Completed == { id \in DOMAIN results : results[id].status # "pending" }

\* The results that have a top hit to score: successful queries that found
\* something.
Successful ==
    { id \in Completed : results[id].status = "success" /\ results[id].results_count > 0 }

RECURSIVE TotalDuration(_)
TotalDuration(ids) ==
    IF ids = {} THEN 0
    ELSE LET id == CHOOSE x \in ids : TRUE
         IN  results[id].duration_seconds + TotalDuration(ids \ {id})

\* The score of the first hit of a result, zero when it lists none.
FirstHit(id) == IF results[id].results = <<>> THEN 0 ELSE Head(results[id].results)

RECURSIVE TotalFirstHit(_)
TotalFirstHit(ids) ==
    IF ids = {} THEN 0
    ELSE LET id == CHOOSE x \in ids : TRUE
         IN  FirstHit(id) + TotalFirstHit(ids \ {id})

\* The quotient q is the mean of a total over count items, zero for no item.
IsMean(q, total, count) ==
    /\ q.den > 0
    /\ IF count = 0 THEN q.num = 0 ELSE q.num * count = total * q.den

\* C7: when Run all over a list of N scenarios finishes, the results map has
\* exactly N entries, one per scenario id of that list, each a success or an
\* error; the progress is then 100 percent, and it is never 100 percent while
\* the run has a scenario left.
C7_RunAllResults ==
    /\ (isRunningAll => ~ProgressFull)
    /\ (panel = "TestRetrieval" /\ ev.op = "handleRunAll" /\ ev.outcome = "completed") =>
          /\ DOMAIN results = IdsOf(ev.arg)
          /\ Cardinality(DOMAIN results) = Len(ev.arg)
          /\ \A id \in DOMAIN results : results[id].status \in {"success", "error"}
          /\ ProgressFull
          /\ ~isRunningAll

\* A run over six scenarios has just finished with a failed and a successful query.
C7_Witness ==
    /\ panel = "TestRetrieval"
    /\ ev.op = "handleRunAll"
    /\ ev.outcome = "completed"
    /\ Len(ev.arg) = Len(DEFAULT_SCENARIOS) + 1
    /\ \E a, b \in DOMAIN results :
          results[a].status = "error" /\ results[b].status = "success"

\* C8: Run all is sequential in list order: there is at most one batch request
\* in flight, and while the request for the scenario at position i + 1 is in
\* flight the answers recorded are exactly those of the i scenarios before it.
C8_Sequential ==
    /\ Len(runs) <= 1
    /\ isRunningAll <=> (runs # <<>>)
    /\ \A k \in 1..Len(runs) :
          /\ runs[k].i < Len(runs[k].list)
          /\ DOMAIN runs[k].newResults = IdsOf(SubSeq(runs[k].list, 1, runs[k].i))

\* The request of the third scenario is in flight.
C8_Witness ==
    /\ panel = "TestRetrieval"
    /\ Len(runs) = 1
    /\ runs[1].i = 2
    /\ Cardinality(DOMAIN results) = 2

\* C9: the average duration is the arithmetic mean of duration_seconds over
\* the completed results of the results map, and zero when there is none.
C9_AvgDuration ==
    IsMean(avgDuration, TotalDuration(Completed), Cardinality(Completed))

\* Results of different durations, a failed one among them, are in the map.
C9_Witness ==
    /\ panel = "TestRetrieval"
    /\ \E a, b \in Completed :
          /\ results[a].status = "error"
          /\ results[b].status = "success"
          /\ results[a].duration_seconds # results[b].duration_seconds

\* C10 as stated: the average top score is the arithmetic mean of the top-hit
\* score over all completed results, and zero when there is none.
C10_AsStated ==
    IsMean(avgScore, TotalFirstHit(Completed), Cardinality(Completed))

\* C10 amended: the average top score is the arithmetic mean of the top-hit
\* score over the successful results (status success and a results count above
\* zero), and zero when there is none; failed and empty results do not count.
C10_AvgScore ==
    IsMean(avgScore, TotalFirstHit(Successful), Cardinality(Successful))

\* A result with a top hit and results without one are in the map.
C10_Witness ==
    /\ panel = "TestRetrieval"
    /\ Successful # {}
    /\ Completed \ Successful # {}
    /\ avgScore.num > 0

----
\* Properties of the stored transcript and of the history payload.

\* C14: Chat reads the 'chatHistory' item once, in its mount effect, and after
\* every change of the transcript the item is the JSON of the transcript (it
\* is absent for the empty transcript), so that loading the item gives the
\* transcript in memory.
C14_StoredFollowsTranscript ==
    [][ panel = "Chat" =>
          /\ cReads' <= 1
          /\ (cReads' # cReads => ev'.op = "mount")
          /\ (cMessages' # cMessages =>
                /\ ChatLoad(cStored') = cMessages'
                /\ cStored' = IF cMessages' = <<>> THEN None
                              ELSE Some(Stringify(cMessages'))) ]_vars

\* An answer has been appended to a loaded transcript and written to the item.
C14_Witness ==
    /\ panel = "Chat"
    /\ ev.op = "response" /\ ev.outcome = "appended"
    /\ Len(cMessages) > 2
    /\ cReads = 1
    /\ cStored = Some(Stringify(cMessages))

\* C15: after confirmClearHistory the transcript is empty and the
\* 'chatHistory' item is absent.
C15_ClearRemovesKey ==
    (panel = "Chat" /\ ev.op = "confirmClearHistory")
        => cMessages = <<>> /\ cStored = None

\* A transcript that had been stored was cleared.
C15_Witness ==
    /\ panel = "Chat"
    /\ ev.op = "confirmClearHistory"
    /\ Len(ev.saw) > 1
    /\ cStored = None
    /\ ~cIsClearDialogOpen

\* new is old with one message added at the end.
IsAppend(old, new) ==
    Len(new) = Len(old) + 1 /\ SubSeq(new, 1, Len(old)) = old

\* A step that changes the transcript other than by starting or clearing it.
GroqChanges == panel = "GroqChat" /\ gMessages' # gMessages /\ ev'.op # "clearChat"
ChatChanges ==
    /\ panel = "Chat"
    /\ cMessages' # cMessages
    /\ ev'.op \notin {"mount", "confirmClearHistory"}

\* C16 as stated: between two clears every change of a transcript appends one
\* message at its end and leaves the messages already there as they were.
C16_AsStated ==
    [][ /\ GroqChanges => IsAppend(gMessages, gMessages')
        /\ ChatChanges => IsAppend(cMessages, cMessages') ]_vars

\* C16 amended: between two clears every change of a transcript appends one
\* message at its end, except that GroqChat removes the last message of its
\* transcript when a request fails; the other messages stay as they were.
C16_AppendOrRollback ==
    [][ /\ GroqChanges =>
              \/ IsAppend(gMessages, gMessages')
              \/ /\ ev'.op = "response" /\ ev'.outcome = "caught"
                 /\ IsAppend(gMessages', gMessages)
        /\ ChatChanges => IsAppend(cMessages, cMessages') ]_vars

\* A failed request took the last message off a GroqChat transcript that
\* held an earlier exchange.
C16_Witness ==
    /\ panel = "GroqChat"
    /\ ev.op = "response" /\ ev.outcome = "caught"
    /\ Len(gMessages) = 2
    /\ Len(ev.saw.before) = 2
    /\ gMessages = ev.saw.before

\* The (user, assistant) pairs of messages that stand next to each other.
RECURSIVE AnsweredPairsFrom(_, _)
AnsweredPairsFrom(messages, i) ==
    IF i >= Len(messages) THEN <<>>
    ELSE (IF messages[i].type = "user" /\ messages[i + 1].type = "assistant"
          THEN << [user |-> messages[i].content,
                   assistant |-> messages[i + 1].content] >>
          ELSE <<>>)
         \o AnsweredPairsFrom(messages, i + 1)

AnsweredPairs(messages) == AnsweredPairsFrom(messages, 1)

\* The same for GroqChat's messages, which name the sender in role.
GroqAnsweredPairs(messages) ==
    AnsweredPairsFrom([i \in 1..Len(messages) |->
                          [type |-> messages[i].role, content |-> messages[i].content]], 1)

\* s is t with some of its elements left out.
RECURSIVE IsSubsequence(_, _)
IsSubsequence(s, t) ==
    IF s = <<>> THEN TRUE
    ELSE IF t = <<>> THEN FALSE
    ELSE IF Head(s) = Head(t) THEN IsSubsequence(Tail(s), Tail(t))
    ELSE IsSubsequence(s, Tail(t))

\* One request is added to those in flight, and it is the last one.
OneMoreRequest(old, new) == Len(new) = Len(old) + 1 /\ SubSeq(new, 1, Len(old)) = old

\* The requests of a step: none unless it is an accepted submit, then one.
OneCallPerSubmit ==
    /\ (panel = "GroqChat" /\ Len(gNet') > Len(gNet))
          => ev'.op = "sendMessage" /\ ev'.outcome = "sent"
    /\ (panel = "Chat" /\ Len(cNet') > Len(cNet))
          => ev'.op = "handleSubmit" /\ ev'.outcome = "sent"
    /\ (GroqStep("sendMessage") /\ ev'.outcome = "sent") => OneMoreRequest(gNet, gNet')
    /\ (ChatStep("handleSubmit") /\ ev'.outcome = "sent") => OneMoreRequest(cNet, cNet')

\* Chat's history: pairs of the transcript before the submit, in its order.
ChatHistoryIsPairs ==
    (ChatStep("handleSubmit") /\ ev'.outcome = "sent") =>
        LET req == cNet'[Len(cNet')]
        IN  /\ req.message = Trim(cMessage)
            /\ IsSubsequence(req.history, AnsweredPairs(cMessages))

\* C17 as stated: an accepted submit issues one request, whose history is made
\* of complete (user, assistant) pairs of the turns before the submitted
\* message, in transcript order.
C17_AsStated ==
    [][ /\ OneCallPerSubmit
        /\ ChatHistoryIsPairs
        /\ (GroqStep("sendMessage") /\ ev'.outcome = "sent") =>
              LET req == gNet'[Len(gNet')]
              IN  /\ req.message = Trim(gInput)
                  /\ IsSubsequence(req.history, GroqAnsweredPairs(gMessages)) ]_vars

\* C17 amended: an accepted submit issues one request, whose history is built
\* from the turns before the submitted message, in transcript order: in Chat
\* every element is a pair of a user turn and the assistant turn next to it;
\* in GroqChat every element is one turn, keyed by its sender, and there is
\* one element for every message of the transcript.
C17_HistoryOfPriorTurns ==
    [][ /\ OneCallPerSubmit
        /\ ChatHistoryIsPairs
        /\ (GroqStep("sendMessage") /\ ev'.outcome = "sent") =>
              LET req == gNet'[Len(gNet')]
              IN  /\ req.message = Trim(gInput)
                  /\ Len(req.history) = Len(gMessages)
                  /\ \A i \in 1..Len(gMessages) :
                        /\ req.history[i].key = gMessages[i].role
                        /\ req.history[i].text = gMessages[i].content ]_vars

\* A request is in flight whose history holds an earlier exchange.
C17_Witness ==
    \/ /\ panel = "GroqChat" /\ ev.op = "sendMessage" /\ ev.outcome = "sent"
       /\ Len(gNet[Len(gNet)].history) = 2
       /\ gNet[Len(gNet)].history[1].key = "user"
       /\ gNet[Len(gNet)].history[2].key = "assistant"
    \/ /\ panel = "Chat" /\ ev.op = "handleSubmit" /\ ev.outcome = "sent"
       /\ Len(cNet[Len(cNet)].history) = 1

\* A number of history elements below what the longest transcript gives.
HistoryCap == MaxMsgs - 2

\* C18 as stated: the history of a request never has more than a fixed number
\* of elements, however long the transcript is.
C18_AsStated ==
    /\ \A i \in 1..Len(gNet) : Len(gNet[i].history) <= HistoryCap
    /\ \A i \in 1..Len(cNet) : Len(cNet[i].history) <= HistoryCap

\* The messages alternate, a user message first.
Alternates(messages) ==
    \A i \in 1..Len(messages) :
        messages[i].type = (IF i % 2 = 1 THEN "user" ELSE "assistant")

\* C18 amended: the history of a request grows with the transcript: GroqChat
\* sends one element for every message the transcript held at the submit,
\* Chat at most one for every two, and exactly that when the transcript
\* alternates between user and assistant.
C18_HistoryGrowsWithTranscript ==
    /\ \A i \in 1..Len(gNet) : Len(gNet[i].history) = Len(gNet[i].before)
    /\ \A i \in 1..Len(cNet) :
          /\ 2 * Len(cNet[i].history) <= Len(cNet[i].before)
          /\ Alternates(cNet[i].before)
                => Len(cNet[i].history) = Len(cNet[i].before) \div 2

\* A request was sent from the longest transcript, with all of it as history.
C18_Witness ==
    /\ panel = "GroqChat"
    /\ \E i \in 1..Len(gNet) :
          /\ Len(gNet[i].before) = MaxMsgs - 1
          /\ Len(gNet[i].history) > HistoryCap

----
\* Properties of the export of test results.

\* The ids of the entries of an exported results array.
ExportedIds(file) == { file.results[i].scenario_id : i \in 1..Len(file.results) }

----
\* Properties of the quick test.

\* C19: a step of handleRunSingle leaves the scenario list, the results map,
\* the batch run with its progress and the metrics computed from the results
\* as they were; its outcome is stored as singleResult, which is cleared when
\* the run starts and holds the result of runSingleTest for the submitted
\* query when it ends.
C19_RunSingleIsApart ==
    (panel = "TestRetrieval" /\ ev.op = "handleRunSingle") =>
        /\ BatchView = ev.saw.batch
        /\ ev.outcome = "rejected" => singleResult = ev.saw.singleResult
        /\ ev.outcome = "started" => singleResult = None
        /\ ev.outcome = "finished" =>
              \E k \in 1..Len(ev.saw.singles) :
                  singleResult = Some(runSingleTest(ev.saw.singles[k].query, ev.arg))

\* A quick test has ended in a result while results of a batch were shown.
C19_Witness ==
    /\ panel = "TestRetrieval"
    /\ ev.op = "handleRunSingle" /\ ev.outcome = "finished"
    /\ singleResult # None
    /\ The(singleResult).status = "success"
    /\ Len(completedTests) > 1
    /\ runs # <<>>

----
\* Properties of the Confessions panel.

\* The kinds of refetch of mutating request n that were answered with success.
Refetched(n) == { t.kind : t \in { u \in settled : u.n = n /\ u.ok } }

\* The last step was the answer to a refetch of a successful delete, and with
\* it both of that delete's refetches have been answered with success.
DeleteRefetched ==
    /\ panel = "Confessions"
    /\ ev.op \in {"fetchConfessions", "fetchStats"}
    /\ ev.saw # None
    /\ The(ev.saw).kind = "delete"
    /\ Refetched(The(ev.saw).n) = {"list", "stats"}

\* C12: when a delete of confession c has succeeded and both refetches it
\* sent have been answered, c is not in the list and the total of the
\* statistics is one less than the total shown when the delete was
\* confirmed (which was then the backend's count).
C12_DeleteThenRefetch ==
    (DeleteRefetched /\ The(ev.saw).total = The(ev.saw).count) =>
        /\ \A c \in confessions : c.id # The(ev.saw).id
        /\ stats.total = The(ev.saw).total - 1

\* The handlers of the mutating actions, and the dialog each is reached from.
MutatingOps == {"handleEdit", "handleReply", "handleDeleteReply", "handleDelete"}

DialogOf(op) ==
    CASE op = "handleEdit" -> isEditDialogOpen
      [] op = "handleReply" -> isReplyDialogOpen
      [] op = "handleDeleteReply" -> isDeleteReplyDialogOpen
      [] OTHER -> isDeleteDialogOpen

ActionKinds == {"edit", "reply", "deleteReply", "delete"}

----
\* Properties of concurrent use.

\* C24: in GroqChat every assistant message of the transcript stands directly
\* after a user message, and the assistant message a response has just
\* appended stands directly after the user message of that response's request.
C24_AssistantFollowsUser ==
    panel = "GroqChat" =>
        /\ \A i \in 1..Len(gMessages) :
              gMessages[i].role = "assistant" =>
                  i > 1 /\ gMessages[i - 1].role = "user"
        /\ (ev.op = "response" /\ ev.outcome = "appended") =>
              /\ Len(gMessages) >= 2
              /\ gMessages[Len(gMessages) - 1] = GroqUserMessage(ev.saw.message)

\* C25: the history of a request Chat has just sent holds, in transcript
\* order, every pair of a user message and the assistant message directly
\* after it that the transcript held when the message was submitted.
C25_HistoryHoldsEveryExchange ==
    (panel = "Chat" /\ ev.op = "handleSubmit" /\ ev.outcome = "sent") =>
        IsSubsequence(AnsweredPairs(ev.saw), cNet[Len(cNet)].history)

\* C26: in TestRetrieval every key of the results map is the id of a scenario
\* of the scenario list.
C26_ResultsOfListedScenarios ==
    panel = "TestRetrieval" => DOMAIN results \subseteq IdsOf(scenarios)

C30_OneQuickTest ==
    panel = "TestRetrieval" =>
        /\ Len(singles) <= 1
        /\ (ev.op = "handleRunSingle" /\ ev.outcome = "started") =>
              ev.saw.singles = <<>>

\* C28: in Confessions a confession is selected whenever the edit, reply,
\* delete or delete-reply dialog is open.
C28_OpenDialogHasSelection ==
    (/\ panel = "Confessions"
     /\ (isEditDialogOpen \/ isReplyDialogOpen \/ isDeleteDialogOpen
         \/ isDeleteReplyDialogOpen))
        => selectedConfession # None

\* The list requests that have not been answered.
ListFetchesInFlight == { i \in 1..Len(gets) : gets[i].kind = "list" }

\* C29: when the answer to a list fetch has been applied and no list fetch is
\* left in flight, the list shown is an answer for the filter now selected
\* (under 'replied' every row is replied, under 'not_replied' none is) and
\* loading is false.
C29_ListOfSelectedFilter ==
    (/\ panel = "Confessions"
     /\ ev.op = "fetchConfessions" /\ ev.outcome = "loaded"
     /\ ListFetchesInFlight = {})
        => /\ \E table \in SUBSET confessions :
                 confessions = BackendList(table, IsRepliedParam(filter))
           /\ ~loading

\* The kinds of the requests in flight that mutating request req has sent.
RefetchesOf(req) == { gets[i].kind : i \in { j \in 1..Len(gets) : gets[j].cause = Some(req) } }

\* C21: when a mutating request of Confessions has just succeeded, its dialog
\* is closed and a list fetch sent by it is in flight, with a stats fetch
\* too unless it was an edit; and every fetch a mutating request has sent
\* was sent after that request was carried out and answered, so a delete's
\* refetch is never answered from a table that still holds the confession.
C21_CloseThenRefetch ==
    panel = "Confessions" =>
        /\ (ev.op \in MutatingOps /\ ev.outcome = "succeeded") =>
              /\ ~DialogOf(ev.op)
              /\ RefetchesOf(ev.saw.req) =
                    (IF ev.op = "handleEdit" THEN {"list"} ELSE {"list", "stats"})
        /\ \A i \in 1..Len(gets) :
              gets[i].cause # None =>
                  LET req == The(gets[i].cause)
                  IN  /\ req.phase = "applied"
                      /\ \A j \in 1..Len(acts) : acts[j].n # req.n
                      /\ req.kind = "delete" =>
                            \A table \in gets[i].views : \A c \in table : c.id # req.id

\* A reply has just succeeded: its dialog is closed and both refetches are
\* in flight.
C21_Witness ==
    /\ panel = "Confessions"
    /\ ev.op = "handleReply" /\ ev.outcome = "succeeded"
    /\ ev.saw.before.reply
    /\ ~isReplyDialogOpen
    /\ RefetchesOf(ev.saw.req) = {"list", "stats"}

----
\* Properties of failures.

\* The step that led to e handled the answer to a request, and the request had
\* failed.  (A run-all step does not record the answer and is left out.)
FailedRequest(e) ==
    CASE panel \in {"GroqChat", "Chat"} -> e.op = "response" /\ RequestFailed(e.arg)
      [] panel = "TestRetrieval" ->
            e.op = "handleRunSingle" /\ e.outcome = "finished" /\ ~e.arg.ok
      [] panel = "Confessions" ->
            \/ e.op \in {"fetchConfessions", "fetchStats"} /\ ~e.arg
            \/ e.op \in MutatingOps /\ e.outcome = "failed"
      [] OTHER -> e.op \in {"fetchConfig", "fetchHealth"} /\ ~e.arg

\* The requests awaiting an answer.
RagPending ==
    Cardinality({ kf \in (1..Len(rCalls)) \X {"config", "health"} :
                    rCalls[kf[1]][kf[2]] = "pending" })

InFlight == Len(gNet) + Len(cNet) + Len(singles) + Len(gets) + Len(acts) + RagPending

\* C22: a step that handles a failed request shows exactly one error toast,
\* sends no request in place of the failed one, and does not end with a
\* rejection that nothing handles.
C22_OneToastNoRetry ==
    [][ FailedRequest(ev') =>
            /\ ErrorToasts(ev') = 1
            /\ InFlight' < InFlight
            /\ panel = "RagConfig" => ev'.saw.then # "unhandled" ]_vars

\* C23: whenever a busy flag is true (a request it guards is in flight, or
\* has failed while the handler still waits for another one) it returns to
\* false.
C23_BusyFlagReturns ==
    /\ (panel = "GroqChat" /\ gIsLoading) ~> ~gIsLoading
    /\ (panel = "Chat" /\ cIsLoading) ~> ~cIsLoading
    /\ (panel = "Confessions" /\ actionLoading) ~> ~actionLoading
    /\ (panel = "TestRetrieval" /\ isRunningSingle) ~> ~isRunningSingle
    /\ (panel = "TestRetrieval" /\ isRunningAll) ~> ~isRunningAll
    /\ (panel = "RagConfig" /\ rRefreshing) ~> ~rRefreshing

\* A refresh of RagConfig whose two fetches both failed has ended, and the
\* Refresh button is enabled again.
C23_Witness ==
    /\ panel = "RagConfig"
    /\ ev.op \in {"fetchConfig", "fetchHealth"}
    /\ ev.saw.handler = "handleRefresh"
    /\ ev.saw.failed = {"config", "health"}
    /\ ev.saw.then = "resumed"
    /\ ~rRefreshing /\ ~rLoading

====
